---- MODULE Spec2Model ----
(***************************************************************************)
(* Model of the ElasticPinchOff case driver (runSimulation.sh) and of the  *)
(* key/value configuration store (parse_params.h) it feeds.                *)
(*                                                                         *)
(* Strings are sequences of one-character strings, so that trimming,       *)
(* prefix matching, truncation and numeral evaluation are computed the     *)
(* way the code computes them.                                             *)
(***************************************************************************)
EXTENDS Integers, Sequences, FiniteSets, TLC

VARIABLES drv, disk, world,
          entries, count, loaded, warned, pfile, files, ret, hist, obs, acc

vars == <<drv, disk, world, entries, count, loaded, warned, pfile, files, ret, hist,
          obs, acc>>
drvVars == <<drv, disk, world>>
storeVars == <<entries, count, loaded, warned, pfile, files, ret, hist, obs, acc>>

(***************************************************************************)
(* Characters and strings                                                  *)
(***************************************************************************)
Digits == {"0","1","2","3","4","5","6","7","8","9"}

\* isspace() / [[:space:]] restricted to the blanks the inputs contain
IsSpace(c) == c \in {" ", "\t"}

DigitVal(c) ==
  CASE c = "0" -> 0 [] c = "1" -> 1 [] c = "2" -> 2 [] c = "3" -> 3
    [] c = "4" -> 4 [] c = "5" -> 5 [] c = "6" -> 6 [] c = "7" -> 7
    [] c = "8" -> 8 [] c = "9" -> 9

Min(a, b) == IF a < b THEN a ELSE b

HasPrefix(s, p) == Len(s) >= Len(p) /\ SubSeq(s, 1, Len(p)) = p

HasSuffix(s, p) == Len(s) >= Len(p) /\ SubSeq(s, Len(s) - Len(p) + 1, Len(s)) = p

\* strchr: index of the first occurrence of c in s, 0 when there is none
IndexOf(s, c) ==
  IF \E i \in 1..Len(s) : s[i] = c
  THEN CHOOSE i \in 1..Len(s) : s[i] = c /\ \A j \in 1..(i-1) : s[j] # c
  ELSE 0

RECURSIVE LTrim(_)
LTrim(s) == IF s # <<>> /\ IsSpace(Head(s)) THEN LTrim(Tail(s)) ELSE s

RECURSIVE RTrim(_)
RTrim(s) ==
  IF s # <<>> /\ IsSpace(s[Len(s)]) THEN RTrim(SubSeq(s, 1, Len(s) - 1)) ELSE s

\* value of a digit string read in the given base (digits assumed below base)
RECURSIVE NumVal(_, _)
NumVal(s, base) ==
  IF s = <<>> THEN 0
  ELSE NumVal(SubSeq(s, 1, Len(s) - 1), base) * base + DigitVal(s[Len(s)])

AllDigits(s) == Len(s) > 0 /\ \A i \in 1..Len(s) : s[i] \in Digits

(***************************************************************************)
(* Case driver: runSimulation.sh                                           *)
(***************************************************************************)
Drivers == {"A", "B"}

T_h       == <<"-","h">>
T_help    == <<"-","-","h","e","l","p">>
T_exec    == <<"-","-","e","x","e","c">>
T_execEq  == <<"-","-","e","x","e","c","=">>
T_mpi     == <<"-","-","m","p","i">>
T_threads == <<"-","-","t","h","r","e","a","d","s">>
T_threadsEq == <<"-","-","t","h","r","e","a","d","s","=">>
T_CPUs    == <<"-","-","C","P","U","s">>
T_cpus    == <<"-","-","c","p","u","s">>
T_CPUsEq  == <<"-","-","C","P","U","s","=">>
T_cpusEq  == <<"-","-","c","p","u","s","=">>
T_dd      == <<"-","-">>

S_dotc         == <<".","c">>
S_default_exec == <<"L","i","q","u","i","d","O","u","t","T","h","i","n","n","i","n","g",".","c">>
S_default_params == <<"d","e","f","a","u","l","t",".","p","a","r","a","m","s">>
S_case_params  == <<"c","a","s","e",".","p","a","r","a","m","s">>
S_simCases     == <<"s","i","m","u","l","a","t","i","o","n","C","a","s","e","s">>
S_restart      == <<"r","e","s","t","a","r","t">>
S_CaseNo       == <<"C","a","s","e","N","o">>
\* line 68 of LiquidOutThinning.c: the name of the checkpoint file
S_dump         == <<"d","u","m","p">>

\* ${1#*=}: the text after the first '='
AfterEq(s) == SubSeq(s, IndexOf(s, "=") + 1, Len(s))

\* exit N
Exit(r, code, at) == [r EXCEPT !.pc = "done", !.exitCode = code, !.exitAt = at]

\* "$2" with ${2:-}: the second word, empty when there is none
Arg2(r) == IF Len(r.argv) >= 2 THEN r.argv[2] ELSE <<>>

Shift(r, n) == [r EXCEPT !.argv = SubSeq(r.argv, n + 1, Len(r.argv))]


\* a legacy branch that shifts one word only, leaving the value to be
\* read as the next argument
ThreadsOptShiftOne(r, eq, legacy) ==
  LET r1 == IF legacy THEN [r EXCEPT !.LEGACY_CPUS_FLAG = 1] ELSE r IN
  IF eq THEN Shift([r1 EXCEPT !.OMP_THREADS = AfterEq(Head(r.argv))], 1)
  ELSE IF Arg2(r) = <<>> THEN Exit(r, 1, "usage")
  ELSE Shift([r1 EXCEPT !.OMP_THREADS = Arg2(r)], IF legacy THEN 1 ELSE 2)

\* lines 81-93 and 94-108: --threads / --CPUs / --cpus with a separate value
\* (eq = FALSE) or with =VALUE (eq = TRUE); legacy marks the deprecated alias
ThreadsOpt(r, eq, legacy) ==
  LET r1 == IF legacy THEN [r EXCEPT !.LEGACY_CPUS_FLAG = 1] ELSE r IN
  IF eq THEN Shift([r1 EXCEPT !.OMP_THREADS = AfterEq(Head(r.argv))], 1)
  ELSE IF Arg2(r) = <<>> THEN Exit(r, 1, "usage")
  ELSE Shift([r1 EXCEPT !.OMP_THREADS = Arg2(r)], 2)

\* lines 59-129: one iteration of the option loop on a non-empty "$@"
ParseStep(r) ==
  LET a == Head(r.argv) IN
  IF a = T_h \/ a = T_help THEN Exit(r, 0, "help")
  ELSE IF a = T_exec THEN
    IF Arg2(r) = <<>> THEN Exit(r, 1, "usage")
    ELSE Shift([r EXCEPT !.EXEC_CODE = Arg2(r)], 2)
  ELSE IF HasPrefix(a, T_execEq) THEN Shift([r EXCEPT !.EXEC_CODE = AfterEq(a)], 1)
  ELSE IF a = T_mpi THEN Shift([r EXCEPT !.LEGACY_MPI_REQUESTED = 1], 1)
  ELSE IF a = T_threads THEN ThreadsOpt(r, FALSE, FALSE)
  ELSE IF HasPrefix(a, T_threadsEq) THEN ThreadsOpt(r, TRUE, FALSE)
  ELSE IF a = T_CPUs \/ a = T_cpus THEN ThreadsOpt(r, FALSE, TRUE)
  ELSE IF HasPrefix(a, T_CPUsEq) \/ HasPrefix(a, T_cpusEq) THEN ThreadsOpt(r, TRUE, TRUE)
  ELSE IF a = T_dd THEN [Shift(r, 1) EXCEPT !.pc = "trailing"]
  ELSE IF HasPrefix(a, <<"-">>) THEN Exit(r, 1, "usage")
  ELSE IF r.PARAM_FILE_SET = 0
    THEN Shift([r EXCEPT !.PARAM_FILE = a, !.PARAM_FILE_SET = 1], 1)
  ELSE Exit(r, 1, "usage")

\* a check that lets zero and leading zeros through: ^[0-9]+$
ThreadsValidAnyDigits(s) == AllDigits(s)

\* line 138: [[ "$OMP_THREADS" =~ ^[1-9][0-9]*$ ]]
ThreadsValid(s) == AllDigits(s) /\ s[1] # "0"

\* line 186: [[ "$CASE_NO" =~ ^[0-9]+$ ]]
CaseNoNumeric(s) == AllDigits(s)

\* line 191: [[ "$CASE_NO" -lt 1000 ]] on a digit string. Bash evaluates the
\* operand as an arithmetic expression: a numeral with a leading 0 is octal,
\* and an octal numeral holding 8 or 9 is an evaluation error, on which [[ ]]
\* returns non-zero, so that the test counts as false. (64-bit wrap-around
\* needs 19 digits and is outside the numerals drawn here.)
CaseNoBelowFloor(s) ==
  IF Len(s) > 1 /\ s[1] = "0"
  THEN IF \E i \in 1..Len(s) : s[i] \in {"8", "9"} THEN FALSE
       ELSE NumVal(s, 8) < 1000
  ELSE NumVal(s, 10) < 1000

\* awk -F '=' fields $1 and $2 of one input line
AwkField1(l) == IF IndexOf(l, "=") = 0 THEN l ELSE SubSeq(l, 1, IndexOf(l, "=") - 1)

AwkField2(l) ==
  IF IndexOf(l, "=") = 0 THEN <<>>
  ELSE LET rest == SubSeq(l, IndexOf(l, "=") + 1, Len(l)) IN
       IF IndexOf(rest, "=") = 0 THEN rest
       ELSE SubSeq(rest, 1, IndexOf(rest, "=") - 1)

\* gsub(/^[[:space:]]+|[[:space:]]+$/, "", x)
AwkTrim(s) == RTrim(LTrim(s))

\* sub(/[[:space:]]*#.*/, "", v): the leftmost match starts at the blanks
\* before the first '#'
AwkStripComment(v) ==
  IF IndexOf(v, "#") = 0 THEN v ELSE RTrim(SubSeq(v, 1, IndexOf(v, "#") - 1))

\* lines 31-48: the value printed for the first non-comment line whose
\* trimmed first field is key; empty when no line matches
RECURSIVE get_param_value(_, _)
get_param_value(key, lines) ==
  IF lines = <<>> THEN <<>>
  ELSE LET l == Head(lines) IN
       IF LTrim(l) # <<>> /\ Head(LTrim(l)) = "#" THEN get_param_value(key, Tail(lines))
       ELSE IF AwkTrim(AwkField1(l)) = key THEN AwkTrim(AwkStripComment(AwkField2(l)))
       ELSE get_param_value(key, Tail(lines))

\* paths below SCRIPT_DIR are sequences of path components
ParamPath(r)   == <<r.PARAM_FILE>>
SrcPath(r)     == <<S_simCases, r.EXEC_CODE>>
\* a case directory that is not keyed by the case identifier
CaseDirFlat(r) == <<S_simCases>>
\* line 196: CASE_DIR
CaseDir(r)     == <<S_simCases, r.CASE_NO>>
CaseFile(r, n) == Append(CaseDir(r), n)

\* line 198: ${EXEC_CODE%.c}
ExecutableName(r) ==
  IF HasSuffix(r.EXEC_CODE, S_dotc)
  THEN SubSeq(r.EXEC_CODE, 1, Len(r.EXEC_CODE) - 2) ELSE r.EXEC_CODE

IsFile(p) == p \in DOMAIN disk /\ disk[p].kind = "file"

Dir == [kind |-> "dir", data |-> <<>>]
File(lines) == [kind |-> "file", data |-> lines]

\* disk with path p (re)written
Put(p, c) == [q \in DOMAIN disk \cup {p} |-> IF q = p THEN c ELSE disk[q]]


\* an engine that was not run
NoEngine == [status |-> -1, cwd |-> <<>>, wrote |-> {}, logFile |-> <<>>,
             CaseNo |-> 0, restored |-> FALSE]

\* lines 50-56: the defaults, before the option loop
NewRun(args) ==
  [pc |-> "parse", args |-> args, argv |-> args,
   EXEC_CODE |-> S_default_exec, PARAM_FILE |-> S_default_params,
   PARAM_FILE_SET |-> 0, OMP_THREADS |-> <<"4">>,
   LEGACY_MPI_REQUESTED |-> 0, LEGACY_CPUS_FLAG |-> 0,
   CASE_NO |-> <<>>, EXIT_CODE |-> 0,
   exitCode |-> -1, exitAt |-> "", log |-> <<>>, created |-> {},
   launched |-> FALSE, ompPassed |-> <<>>, notes |-> {},
   cwd |-> <<>>, ckptAtCheck |-> FALSE, engine |-> NoEngine]

\* a driver that is not started
Idle == [NewRun(<<>>) EXCEPT !.pc = "off"]

\* the script without set -e: a failing command does not end it
StepNoErrexit(r, name, rc, next) ==
  [r EXCEPT !.log = Append(@, <<name, rc>>), !.pc = next]

\* set -e (line 11): a failing simple command ends the script with its status
Step(r, name, rc, next) ==
  IF rc # 0 THEN Exit([r EXCEPT !.log = Append(@, <<name, rc>>)], rc, name)
  ELSE [r EXCEPT !.log = Append(@, <<name, 0>>), !.pc = next]

\* lines 58-130: the while loop over "$@"
ParseArg(d) ==
  /\ drv[d].pc = "parse"
  /\ drv' = [drv EXCEPT ![d] = IF drv[d].argv = <<>>
                                 THEN [drv[d] EXCEPT !.pc = "trailing"]
                                 ELSE ParseStep(drv[d])]
  /\ UNCHANGED <<disk, world>>

\* lines 132-136
TrailingCheck(r) ==
  IF r.argv # <<>> THEN Exit(r, 1, "trailing") ELSE [r EXCEPT !.pc = "threads"]

CheckTrailing(d) ==
  /\ drv[d].pc = "trailing"
  /\ drv' = [drv EXCEPT ![d] = TrailingCheck(drv[d])]
  /\ UNCHANGED <<disk, world>>

\* lines 143-156: deprecation warnings, .c suffix (relative parameter paths are
\* resolved against SCRIPT_DIR, which is the root of the modelled disk)
Normalize(r) ==
  [r EXCEPT !.notes = @ \cup (IF r.LEGACY_MPI_REQUESTED = 1 THEN {"warn_mpi"} ELSE {})
                        \cup (IF r.LEGACY_CPUS_FLAG = 1 THEN {"warn_cpus"} ELSE {}),
            !.EXEC_CODE = IF HasSuffix(@, S_dotc) THEN @ ELSE @ \o S_dotc]

\* lines 138-156
ThreadsCheck(r) ==
  IF ~ThreadsValid(r.OMP_THREADS) THEN Exit(r, 1, "threads")
  ELSE [Normalize(r) EXCEPT !.pc = "qcc"]

CheckThreads(d) ==
  /\ drv[d].pc = "threads"
  /\ drv' = [drv EXCEPT ![d] = ThreadsCheck(drv[d])]
  /\ UNCHANGED <<disk, world>>

\* lines 163-167
QccCheck(r, w) == IF ~w.qcc THEN Exit(r, 1, "qcc") ELSE [r EXCEPT !.pc = "paramfile"]

CheckQcc(d) ==
  /\ drv[d].pc = "qcc"
  /\ drv' = [drv EXCEPT ![d] = QccCheck(drv[d], world)]
  /\ UNCHANGED <<disk, world>>

\* lines 169-172
ParamFileCheck(r, present) ==
  IF ~present THEN Exit(r, 1, "paramfile") ELSE [r EXCEPT !.pc = "srcfile"]

CheckParamFile(d) ==
  /\ drv[d].pc = "paramfile"
  /\ drv' = [drv EXCEPT ![d] = ParamFileCheck(drv[d], IsFile(ParamPath(drv[d])))]
  /\ UNCHANGED <<disk, world>>

\* lines 174-178
SrcFileCheck(r, present) ==
  IF ~present THEN Exit(r, 1, "srcfile") ELSE [r EXCEPT !.pc = "caseno"]

CheckSrcFile(d) ==
  /\ drv[d].pc = "srcfile"
  /\ drv' = [drv EXCEPT ![d] = SrcFileCheck(drv[d], IsFile(SrcPath(drv[d])))]
  /\ UNCHANGED <<disk, world>>

\* lines 180-199 on the value extracted from the parameter file
CaseNoCheck(r, v) ==
  LET r1 == [r EXCEPT !.CASE_NO = v] IN
  IF v = <<>> THEN Exit(r1, 1, "caseno_absent")
  ELSE IF ~CaseNoNumeric(v) THEN Exit(r1, 1, "caseno_numeric")
  ELSE IF CaseNoBelowFloor(v) THEN Exit(r1, 1, "caseno_floor")
  ELSE [r1 EXCEPT !.pc = "mkdir"]

ReadCaseNo(d) ==
  /\ drv[d].pc = "caseno"
  /\ drv' = [drv EXCEPT ![d] =
       IF IsFile(ParamPath(drv[d]))
       THEN CaseNoCheck(drv[d], get_param_value(S_CaseNo, disk[ParamPath(drv[d])].data))
       ELSE Exit(drv[d], 2, "awk")]
  /\ UNCHANGED <<disk, world>>

\* line 213: mkdir -p "$CASE_DIR"
Mkdir(d) ==
  /\ drv[d].pc = "mkdir"
  /\ LET r == drv[d] IN
     /\ drv' = [drv EXCEPT ![d] =
          IF world.mkdirRc = 0
          THEN [Step(r, "mkdir", 0, "cp_params") EXCEPT !.created = @ \cup {CaseDir(r)}]
          ELSE Step(r, "mkdir", world.mkdirRc, "cp_params")]
     /\ disk' = IF world.mkdirRc = 0 THEN Put(CaseDir(r), Dir) ELSE disk
  /\ UNCHANGED world

\* cp SRC DST under set -e
Copy(d, name, rc, from, to, next) ==
  LET r  == drv[d]
      ok == rc = 0 /\ IsFile(from) IN
  /\ drv' = [drv EXCEPT ![d] =
       IF ok
       THEN [Step(r, name, 0, next) EXCEPT !.created = @ \cup {to}]
       ELSE Step(r, name, IF rc = 0 THEN 1 ELSE rc, next)]
  /\ disk' = IF ok THEN Put(to, disk[from]) ELSE disk
  /\ UNCHANGED world

\* line 214: cp "$PARAM_FILE" "$CASE_DIR/case.params"
CpParams(d) ==
  /\ drv[d].pc = "cp_params"
  /\ Copy(d, "cp_params", world.cpParamsRc, ParamPath(drv[d]),
          CaseFile(drv[d], S_case_params), "cp_src")

\* line 215: cp "$SRC_FILE_ORIG" "$CASE_DIR/$SRC_FILE_LOCAL"
CpSrc(d) ==
  /\ drv[d].pc = "cp_src"
  /\ Copy(d, "cp_src", world.cpSrcRc, SrcPath(drv[d]),
          CaseFile(drv[d], drv[d].EXEC_CODE), "build")

\* lines 217-223: cd "$CASE_DIR"; qcc ... "$SRC_FILE_LOCAL" -o "$EXECUTABLE_NAME" -lm
Build(d) ==
  /\ drv[d].pc = "build"
  /\ LET r   == drv[d]
         bin == CaseFile(r, ExecutableName(r))
         ok  == world.buildRc = 0 /\ IsFile(CaseFile(r, r.EXEC_CODE)) IN
     /\ drv' = [drv EXCEPT ![d] =
          IF ok
          THEN [Step(r, "build", 0, "restart") EXCEPT !.created = @ \cup {bin},
                                                      !.cwd = CaseDir(r)]
          ELSE [Step(r, "build", IF world.buildRc = 0 THEN 1 ELSE world.buildRc, "restart")
                  EXCEPT !.cwd = CaseDir(r)]]
     /\ disk' = IF ok THEN Put(bin, File(<<<<"b","i","n">>>>)) ELSE disk
  /\ UNCHANGED world

\* lines 225-227
CheckRestart(d) ==
  /\ drv[d].pc = "restart"
  /\ drv' = [drv EXCEPT ![d] =
       [drv[d] EXCEPT !.pc = "run",
                      !.ckptAtCheck = IsFile(Append(drv[d].cwd, S_dump)),
                      !.notes = IF IsFile(Append(drv[d].cwd, S_restart))
                                THEN @ \cup {"restart_notice"} ELSE @]]
  /\ UNCHANGED <<disk, world>>


(***************************************************************************)
(* Configuration store: parse_params.h                                     *)
(*                                                                         *)
(* The buffer sizes are scaled down (the source has 256 entries, keys of   *)
(* 128 and values of 256 bytes, a line buffer of 128 + 256 + 64 bytes) so  *)
(* that full buffers are within reach of short inputs; the code paths are  *)
(* the same. File names are not scaled: they are kept whole.               *)
(***************************************************************************)
PARSE_PARAMS_MAX_ENTRIES == 2
PARSE_PARAMS_KEY_LEN == 3
PARSE_PARAMS_VALUE_LEN == 4
LineSlack == 3
\* char line[PARSE_PARAMS_KEY_LEN + PARSE_PARAMS_VALUE_LEN + 64]
LineBufLen == PARSE_PARAMS_KEY_LEN + PARSE_PARAMS_VALUE_LEN + LineSlack

Slots == 0..(PARSE_PARAMS_MAX_ENTRIES - 1)

\* the sizes the header is compiled with: scaled for the store studied on its
\* own, those of the source for the store inside the engine
Limits == [entries |-> PARSE_PARAMS_MAX_ENTRIES, key |-> PARSE_PARAMS_KEY_LEN,
           value |-> PARSE_PARAMS_VALUE_LEN, line |-> LineBufLen]

SOURCE_MAX_ENTRIES == 256
SOURCE_KEY_LEN == 128
SOURCE_VALUE_LEN == 256
SourceLineSlack == 64
SourceLimits == [entries |-> SOURCE_MAX_ENTRIES, key |-> SOURCE_KEY_LEN,
                 value |-> SOURCE_VALUE_LEN,
                 line |-> SOURCE_KEY_LEN + SOURCE_VALUE_LEN + SourceLineSlack]

\* the static data of the header
Cur == [entries |-> entries, count |-> count, loaded |-> loaded,
        warned |-> warned, pfile |-> pfile, lim |-> Limits]

\* lines 46-50: zero-initialised static storage
FreshWith(lim) ==
  [entries |-> [i \in 0..(lim.entries - 1) |-> [key |-> <<>>, value |-> <<>>]],
   count |-> 0, loaded |-> FALSE, warned |-> FALSE, pfile |-> "case.params",
   lim |-> lim]

Fresh == FreshWith(Limits)

\* the entries in use, in order
View(S) == [i \in 1..S.count |-> S.entries[i - 1]]

\* a trim of the leading blanks only
parse_params_trimLeft(s) == LTrim(s)

parse_params_trim(s) == RTrim(LTrim(s))

\* strncpy(dst, src, n - 1); dst[n - 1] = '\0'
CopyBounded(s, n) == SubSeq(s, 1, Min(Len(s), n - 1))

\* lines 77-83
parse_params_find_key(S, key) ==
  IF \E i \in 0..(S.count - 1) : S.entries[i].key = key
  THEN CHOOSE i \in 0..(S.count - 1) :
         /\ S.entries[i].key = key
         /\ \A j \in 0..(i - 1) : S.entries[j].key # key
  ELSE -1

\* an insert that leaves the value of a key already present alone
parse_params_set_valueKeepFirst(S, key, value) ==
  LET idx == parse_params_find_key(S, key)
      v   == CopyBounded(value, S.lim.value) IN
  IF idx < 0 THEN
    IF S.count >= S.lim.entries THEN S
    ELSE [S EXCEPT !.count = @ + 1,
                   !.entries[S.count] =
                      [key |-> CopyBounded(key, S.lim.key), value |-> v]]
  ELSE S

\* an insert that, when the store is full, takes the last slot
parse_params_set_valueEvict(S, key, value) ==
  LET idx == parse_params_find_key(S, key)
      v   == CopyBounded(value, S.lim.value)
      e   == [key |-> CopyBounded(key, S.lim.key), value |-> v] IN
  IF idx < 0 THEN
    IF S.count >= S.lim.entries
    THEN [S EXCEPT !.entries[S.lim.entries - 1] = e]
    ELSE [S EXCEPT !.count = @ + 1, !.entries[S.count] = e]
  ELSE [S EXCEPT !.entries[idx].value = v]

\* lines 90-111
parse_params_set_value(S, key, value) ==
  LET idx == parse_params_find_key(S, key)
      v   == CopyBounded(value, S.lim.value) IN
  IF idx < 0 THEN
    IF S.count >= S.lim.entries THEN S
    ELSE [S EXCEPT !.count = @ + 1,
                   !.entries[S.count] =
                      [key |-> CopyBounded(key, S.lim.key), value |-> v]]
  ELSE [S EXCEPT !.entries[idx].value = v]

\* fgets(line, sizeof(line), fp) over one text line, n = sizeof(line): pieces
\* of at most n - 1 characters (the newline is blank space at the end of the
\* last piece and is trimmed or cut with it)
RECURSIVE Fgets(_, _)
Fgets(l, n) ==
  IF Len(l) <= n - 1 THEN <<l>>
  ELSE <<SubSeq(l, 1, n - 1)>> \o Fgets(SubSeq(l, n, Len(l)), n)

\* lines 145-159: the body of the read loop for one buffer
LoadLine(S, buf) ==
  LET line == IF IndexOf(buf, "#") = 0 THEN buf ELSE SubSeq(buf, 1, IndexOf(buf, "#") - 1)
      eq   == IndexOf(line, "=")
      key  == parse_params_trim(SubSeq(line, 1, eq - 1))
      val  == parse_params_trim(SubSeq(line, eq + 1, Len(line))) IN
  IF eq = 0 THEN S
  ELSE IF key = <<>> \/ val = <<>> THEN S
  ELSE parse_params_set_value(S, key, val)

RECURSIVE LoadBuffers(_, _)
LoadBuffers(S, bufs) ==
  IF bufs = <<>> THEN S ELSE LoadBuffers(LoadLine(S, Head(bufs)), Tail(bufs))

RECURSIVE LoadLines(_, _)
LoadLines(S, lines) ==
  IF lines = <<>> THEN S
  ELSE LoadLines(LoadBuffers(S, Fgets(Head(lines), S.lim.line)), Tail(lines))

\* a load that merges into the entries in use
ResetForLoadKeepEntries(S) == [S EXCEPT !.loaded = TRUE]

\* lines 129-130
ResetForLoad(S) == [S EXCEPT !.count = 0, !.loaded = TRUE]

\* a load that opens the file before it resets the store
parse_params_loadOpenFirst(S, f) ==
  IF ~f.exists
  THEN [S |-> [S EXCEPT !.warned = TRUE], rc |-> -1, warn |-> ~S.warned]
  ELSE [S |-> LoadLines(ResetForLoad(S), f.lines), rc |-> 0, warn |-> FALSE]

\* a load whose success makes the next failure warn again
parse_params_loadRearm(S, f) ==
  LET S0 == ResetForLoad(S) IN
  IF ~f.exists
  THEN [S |-> [S0 EXCEPT !.warned = TRUE], rc |-> -1, warn |-> ~S0.warned]
  ELSE [S |-> [LoadLines(S0, f.lines) EXCEPT !.warned = FALSE], rc |-> 0, warn |-> FALSE]

\* lines 127-164: the store after the call, the value returned, and whether
\* the missing-file warning was printed; f is the file at filename
parse_params_load(S, f) ==
  LET S0 == ResetForLoad(S) IN
  IF ~f.exists
  THEN [S |-> [S0 EXCEPT !.warned = TRUE], rc |-> -1, warn |-> ~S0.warned]
  ELSE [S |-> LoadLines(S0, f.lines), rc |-> 0, warn |-> FALSE]

\* a helper that loads whenever the store holds no entry
NeedsLoadWhenEmpty(S) == S.count = 0

\* lines 192-196
NeedsLoad(S) == ~S.loaded

\* lines 203-209: the store after the call, the string returned and whether
\* a file was opened
parse_param_string(S, fs, key, default_value) ==
  LET S1  == IF NeedsLoad(S) THEN parse_params_load(S, fs[S.pfile]).S ELSE S
      idx == parse_params_find_key(S1, key) IN
  [S |-> S1, val |-> IF idx >= 0 THEN S1.entries[idx].value ELSE default_value,
   opened |-> NeedsLoad(S)]


(***************************************************************************)
(* Typed accessors: params.h                                               *)
(***************************************************************************)
\* the null pointer, as a default value and as a result
NULL == <<"NULL">>

UpperCase == <<"A","B","C","D","E","F","G","H","I","J","K","L","M",
               "N","O","P","Q","R","S","T","U","V","W","X","Y","Z">>
LowerCase == <<"a","b","c","d","e","f","g","h","i","j","k","l","m",
               "n","o","p","q","r","s","t","u","v","w","x","y","z">>

\* tolower() in the C locale
tolower(c) ==
  IF \E i \in 1..26 : UpperCase[i] = c
  THEN LowerCase[CHOOSE i \in 1..26 : UpperCase[i] = c]
  ELSE c

\* a comparison that stops at the end of the word b
param_str_ieqPrefix(a, b) ==
  /\ Len(a) >= Len(b)
  /\ \A i \in 1..Len(b) : tolower(a[i]) = tolower(b[i])

\* lines 140-151 of params.h
RECURSIVE param_str_ieq(_, _)
param_str_ieq(a, b) ==
  IF a # <<>> /\ b # <<>>
  THEN IF tolower(Head(a)) # tolower(Head(b)) THEN FALSE
       ELSE param_str_ieq(Tail(a), Tail(b))
  ELSE a = <<>> /\ b = <<>>

\* index of the first character at or after i that is not blank
RECURSIVE SkipSpace(_, _)
SkipSpace(s, i) == IF i <= Len(s) /\ IsSpace(s[i]) THEN SkipSpace(s, i + 1) ELSE i

\* index of the first character at or after i that is not in set D
RECURSIVE SkipIn(_, _, _)
SkipIn(s, i, D) == IF i <= Len(s) /\ s[i] \in D THEN SkipIn(s, i + 1, D) ELSE i

\* index after an optional sign at i
SkipSign(s, i) == IF i <= Len(s) /\ s[i] \in {"+", "-"} THEN i + 1 ELSE i

INT_MAX == 2147483647
INT_MIN == -INT_MAX - 1

\* the negated value of a digit string while it is within the range of int,
\* 1 once it is beyond; sofar is the negated value of the digits read
RECURSIVE NegAcc(_, _)
NegAcc(ds, sofar) ==
  IF ds = <<>> \/ sofar = 1 THEN sofar
  ELSE LET d == DigitVal(Head(ds)) IN
       IF sofar < -(INT_MAX \div 10) \/ (sofar = -(INT_MAX \div 10) /\ d > 8) THEN 1
       ELSE NegAcc(Tail(ds), sofar * 10 - d)

\* strtol(s, &end, 10): end is the index of *end in s (1: end == s), value the
\* result when it lies within the range of int. A numeral beyond that range
\* either fits a wider long, and fails the range test of line 220, or sets
\* errno to ERANGE: inInt is false in both cases.
strtol(s) ==
  LET i0  == SkipSpace(s, 1)
      i1  == SkipSign(s, i0)
      i2  == SkipIn(s, i1, Digits)
      neg == i0 <= Len(s) /\ s[i0] = "-"
      m   == NegAcc(SubSeq(s, i1, i2 - 1), 0) IN
  IF i2 = i1 THEN [end |-> 1, inInt |-> TRUE, value |-> 0]
  ELSE IF m = 1 \/ (~neg /\ m = INT_MIN) THEN [end |-> i2, inInt |-> FALSE, value |-> 0]
  ELSE [end |-> i2, inInt |-> TRUE, value |-> IF neg THEN m ELSE -m]

NoWarning == <<>>
\* the text of the warning: what was wrong, the key, the raw value and the
\* default as printed
Warning(what, key, raw, shown) == <<what, key, raw, shown>>

\* lines 169-173
param_string(S, fs, key, default_value) ==
  LET r == parse_param_string(S, fs, key, default_value) IN
  [S |-> r.S, val |-> r.val, warn |-> NoWarning, opened |-> r.opened]

\* a conversion in the manner of atoi: 0 when the text is no numeral
param_intAtoi(S, fs, key, default_value) ==
  LET r == param_string(S, fs, key, NULL)
      t == strtol(r.val) IN
  IF r.val = NULL THEN [r EXCEPT !.val = default_value]
  ELSE [r EXCEPT !.val = t.value]

\* lines 207-228
param_int(S, fs, key, default_value) ==
  LET r == param_string(S, fs, key, NULL)
      s == r.val
      t == strtol(s)
      e == SkipSpace(s, t.end) IN
  IF s = NULL THEN [r EXCEPT !.val = default_value]
  ELSE IF ~t.inInt \/ t.end = 1 \/ e # Len(s) + 1
  THEN [r EXCEPT !.val = default_value,
                 !.warn = Warning("Invalid int", key, s, default_value)]
  ELSE [r EXCEPT !.val = t.value]

HexDigits == Digits \cup {"a","b","c","d","e","f","A","B","C","D","E","F"}

HexVal(c) ==
  IF c \in Digits THEN DigitVal(c)
  ELSE CASE tolower(c) = "a" -> 10 [] tolower(c) = "b" -> 11 [] tolower(c) = "c" -> 12
         [] tolower(c) = "d" -> 13 [] tolower(c) = "e" -> 14 [] tolower(c) = "f" -> 15

RECURSIVE HexNum(_)
HexNum(s) == IF s = <<>> THEN 0 ELSE HexNum(SubSeq(s, 1, Len(s) - 1)) * 16 + HexVal(s[Len(s)])

RECURSIVE Pow(_, _)
Pow(b, n) == IF n = 0 THEN 1 ELSE b * Pow(b, n - 1)

DigitChar(d) == <<"0","1","2","3","4","5","6","7","8","9">>[d + 1]

\* the decimal numeral of a natural number
RECURSIVE DecDigits(_)
DecDigits(n) == IF n < 10 THEN <<DigitChar(n)>> ELSE Append(DecDigits(n \div 10), DigitChar(n % 10))

\* the word w stands at index i of s, letter case apart
WordAt(s, i, w) ==
  /\ Len(s) >= i + Len(w) - 1
  /\ \A j \in 1..Len(w) : tolower(s[i + j - 1]) = w[j]

RECURSIVE StripLeadingZeros(_)
StripLeadingZeros(ds) ==
  IF ds # <<>> /\ Head(ds) = "0" THEN StripLeadingZeros(Tail(ds)) ELSE ds

\* the value digs * 10^exp of a double, digs without leading or trailing zero
RECURSIVE DblNorm(_, _, _)
DblNorm(neg, ds, exp) ==
  LET d == StripLeadingZeros(ds) IN
  IF d = <<>> THEN [cls |-> "finite", neg |-> neg, digs |-> <<>>, exp |-> 0]
  ELSE IF d[Len(d)] = "0" THEN DblNorm(neg, SubSeq(d, 1, Len(d) - 1), exp + 1)
  ELSE [cls |-> "finite", neg |-> neg, digs |-> d, exp |-> exp]

\* digit strings compared as the fractions 0.a and 0.b
RECURSIVE FracLess(_, _)
FracLess(a, b) ==
  IF b = <<>> THEN FALSE
  ELSE IF a = <<>> THEN \E i \in 1..Len(b) : b[i] # "0"
  ELSE IF Head(a) # Head(b) THEN DigitVal(Head(a)) < DigitVal(Head(b))
  ELSE FracLess(Tail(a), Tail(b))

\* the exponent field of a literal, kept within +-ExpCap
ExpCap == 100000
ExpVal(ds, neg) ==
  LET m == NegAcc(ds, 0)
      v == IF m = 1 \/ m < -ExpCap THEN ExpCap ELSE -m IN
  IF neg THEN -v ELSE v

\* DBL_MAX is 1.7976931348623157e308, DBL_MIN 2.2250738585072014e-308: v is
\* beyond the largest double (to the precision of 17 digits)
DblOver(v) ==
  /\ v.digs # <<>>
  /\ LET order == Len(v.digs) + v.exp IN
     \/ order > 309
     \/ order = 309 /\ ~FracLess(v.digs, <<"1","7","9","7","6","9","3","1","3","4",
                                           "8","6","2","3","1","5","8">>)

\* v is below the smallest normalised double
DblUnder(v) ==
  /\ v.digs # <<>>
  /\ LET order == Len(v.digs) + v.exp IN
     \/ order < -307
     \/ order = -307 /\ FracLess(v.digs, <<"2","2","2","5","0","7","3","8","5","8",
                                          "5","0","7","2","0","1","4">>)

DblInf(neg) == [cls |-> "inf", neg |-> neg, digs |-> <<>>, exp |-> 0]
DblNaN == [cls |-> "nan", neg |-> FALSE, digs |-> <<>>, exp |-> 0]

\* the value mant * 2^bexp of a hexadecimal literal
HexValue(neg, mant, bexp) ==
  IF bexp >= 0 THEN DblNorm(neg, DecDigits(mant * Pow(2, bexp)), 0)
  ELSE DblNorm(neg, DecDigits(mant * Pow(5, -bexp)), bexp)

\* strtod(s, &end): end is the index of *end in s (1: end == s), v the value,
\* range "over" when the value overflows (errno is ERANGE), "under" when it
\* underflows (errno is ERANGE or not, as the C library chooses)
strtod(s) ==
  LET i0  == SkipSpace(s, 1)
      i1  == SkipSign(s, i0)
      neg == i0 <= Len(s) /\ s[i0] = "-"
      \* digits [. digits] from i1
      d2  == SkipIn(s, i1, Digits)
      d3  == IF d2 <= Len(s) /\ s[d2] = "." THEN SkipIn(s, d2 + 1, Digits) ELSE d2
      dI  == SubSeq(s, i1, d2 - 1)
      dF  == SubSeq(s, d2 + 1, d3 - 1)
      dE0 == SkipSign(s, d3 + 1)
      dE1 == SkipIn(s, dE0, Digits)
      dHasE == d3 <= Len(s) /\ s[d3] \in {"e", "E"} /\ dE1 > dE0
      dExp  == IF dHasE
               THEN ExpVal(SubSeq(s, dE0, dE1 - 1), s[d3 + 1] = "-") ELSE 0
      dv  == DblNorm(neg, dI \o dF, dExp - Len(dF))
      \* 0x hexdigits [. hexdigits] from i1
      h1  == i1 + 2
      h2  == SkipIn(s, h1, HexDigits)
      h3  == IF h2 <= Len(s) /\ s[h2] = "." THEN SkipIn(s, h2 + 1, HexDigits) ELSE h2
      hI  == SubSeq(s, h1, h2 - 1)
      hF  == SubSeq(s, h2 + 1, h3 - 1)
      hE0 == SkipSign(s, h3 + 1)
      hE1 == SkipIn(s, hE0, Digits)
      hHasE == h3 <= Len(s) /\ s[h3] \in {"p", "P"} /\ hE1 > hE0
      hExp  == IF hHasE
               THEN ExpVal(SubSeq(s, hE0, hE1 - 1), s[h3 + 1] = "-") ELSE 0
      \* nan(n-char-sequence)
      n1  == SkipIn(s, i1 + 4, HexDigits \cup {LowerCase[i] : i \in 1..26}
                                   \cup {UpperCase[i] : i \in 1..26} \cup {"_"}) IN
  IF WordAt(s, i1, <<"i","n","f","i","n","i","t","y">>)
  THEN [end |-> i1 + 8, v |-> DblInf(neg), range |-> "ok"]
  ELSE IF WordAt(s, i1, <<"i","n","f">>)
  THEN [end |-> i1 + 3, v |-> DblInf(neg), range |-> "ok"]
  ELSE IF WordAt(s, i1, <<"n","a","n">>)
  THEN [end |-> IF WordAt(s, i1 + 3, <<"(">>) /\ WordAt(s, n1, <<")">>)
                THEN n1 + 1 ELSE i1 + 3,
        v |-> DblNaN, range |-> "ok"]
  ELSE IF WordAt(s, i1, <<"0","x">>) /\ Len(hI) + Len(hF) > 0
  THEN [end |-> IF hHasE THEN hE1 ELSE h3,
        v |-> HexValue(neg, HexNum(hI \o hF), hExp - 4 * Len(hF)), range |-> "ok"]
  ELSE IF Len(dI) + Len(dF) > 0
  THEN [end |-> IF dHasE THEN dE1 ELSE d3,
        v |-> IF DblOver(dv) THEN DblInf(neg) ELSE dv,
        range |-> IF DblOver(dv) THEN "over" ELSE IF DblUnder(dv) THEN "under" ELSE "ok"]
  ELSE [end |-> 1, v |-> DblNorm(FALSE, <<>>, 0), range |-> "ok"]

\* lines 180-200; uerr: errno is ERANGE after an underflow
param_double(S, fs, key, default_value, uerr) ==
  LET r == param_string(S, fs, key, NULL)
      s == r.val
      t == strtod(s)
      e == SkipSpace(s, t.end) IN
  IF s = NULL THEN [r EXCEPT !.val = default_value]
  ELSE IF t.range = "over" \/ (t.range = "under" /\ uerr) \/ t.end = 1
          \/ e # Len(s) + 1
  THEN [r EXCEPT !.val = default_value,
                 !.warn = Warning("Invalid double", key, s, default_value)]
  ELSE [r EXCEPT !.val = t.v]

\* a conversion that falls back to the default without a word
param_boolSilent(S, fs, key, default_value) ==
  LET r == param_string(S, fs, key, NULL)
      s == r.val IN
  IF s = NULL THEN [r EXCEPT !.val = default_value]
  ELSE IF \E w \in {<<"1">>, <<"t","r","u","e">>, <<"y","e","s">>, <<"o","n">>} :
            param_str_ieq(s, w)
  THEN [r EXCEPT !.val = TRUE]
  ELSE IF \E w \in {<<"0">>, <<"f","a","l","s","e">>, <<"n","o">>, <<"o","f","f">>} :
            param_str_ieq(s, w)
  THEN [r EXCEPT !.val = FALSE]
  ELSE [r EXCEPT !.val = default_value]

\* lines 239-257
param_bool(S, fs, key, default_value) ==
  LET r == param_string(S, fs, key, NULL)
      s == r.val IN
  IF s = NULL THEN [r EXCEPT !.val = default_value]
  ELSE IF param_str_ieq(s, <<"1">>) \/ param_str_ieq(s, <<"t","r","u","e">>)
          \/ param_str_ieq(s, <<"y","e","s">>) \/ param_str_ieq(s, <<"o","n">>)
  THEN [r EXCEPT !.val = TRUE]
  ELSE IF param_str_ieq(s, <<"0">>) \/ param_str_ieq(s, <<"f","a","l","s","e">>)
          \/ param_str_ieq(s, <<"n","o">>) \/ param_str_ieq(s, <<"o","f","f">>)
  THEN [r EXCEPT !.val = FALSE]
  ELSE [r EXCEPT !.val = default_value,
                 !.warn = Warning("Invalid bool", key, s, IF default_value THEN 1 ELSE 0)]


(***************************************************************************)
(* The engine at start-up: simulationCases/LiquidOutThinning.c             *)
(***************************************************************************)
\* comparisons of doubles; every comparison with a NaN is false
DblZero == DblNorm(FALSE, <<>>, 0)
DblSign(v) == IF v.cls = "finite" /\ v.digs = <<>> THEN 0 ELSE IF v.neg THEN -1 ELSE 1
MagLess(a, b) ==
  IF a.cls = "inf" THEN FALSE
  ELSE IF b.cls = "inf" THEN TRUE
  ELSE \/ Len(a.digs) + a.exp < Len(b.digs) + b.exp
       \/ Len(a.digs) + a.exp = Len(b.digs) + b.exp /\ FracLess(a.digs, b.digs)
DblLess(a, b) ==
  IF a.cls = "nan" \/ b.cls = "nan" THEN FALSE
  ELSE IF DblSign(a) # DblSign(b) THEN DblSign(a) < DblSign(b)
  ELSE IF DblSign(a) = 0 THEN FALSE
  ELSE IF DblSign(a) = 1 THEN MagLess(a, b) ELSE MagLess(b, a)
DblEq(a, b) ==
  /\ a.cls # "nan" /\ b.cls # "nan"
  /\ DblSign(a) = DblSign(b) /\ a.cls = b.cls /\ a.digs = b.digs /\ a.exp = b.exp
DblLeq(a, b) == DblLess(a, b) \/ DblEq(a, b)
\* v * 10^n
DblScale(v, n) == IF v.cls = "finite" /\ v.digs # <<>> THEN [v EXCEPT !.exp = @ + n] ELSE v

S_MAXlevel == <<"M","A","X","l","e","v","e","l">>
S_tmax     == <<"t","m","a","x">>
S_Oh       == <<"O","h">>
S_Oha      == <<"O","h","a">>
S_De       == <<"D","e">>
S_Ec       == <<"E","c">>
S_dtmax    == <<"d","t","m","a","x">>
S_intermediate == <<"i","n","t","e","r","m","e","d","i","a","t","e">>
S_snapshot == <<"s","n","a","p","s","h","o","t","-","0",".","0","0","0","0">>

CASENO_DEFAULT == 1000
MAXLEVEL_DEFAULT == 12

\* lines 45-46 and 47-53: the keys read as int and as double, with the
\* defaults the code gives them (Oha's default is Oh's value, line 50)
EngineIntDefaults == [k \in {S_CaseNo, S_MAXlevel} |->
                  IF k = S_CaseNo THEN CASENO_DEFAULT ELSE MAXLEVEL_DEFAULT]
EngineDblDefaults == [k \in {S_tmax, S_Oh, S_De, S_Ec, S_dtmax} |->
                  IF k = S_tmax THEN DblNorm(FALSE, <<"2">>, 2)
                  ELSE IF k = S_De THEN DblNorm(FALSE, <<"1">>, 30)
                  ELSE IF k = S_dtmax THEN DblNorm(FALSE, <<"1">>, -5)
                  ELSE DblNorm(FALSE, <<"1">>, 0)]

\* lines 55-56: the condition under which main() returns 1
InvalidParams(CaseNo, MAXlevel, tmax, Oh, Oha, De, Ec, dtmax) ==
  \/ CaseNo < 1000 \/ MAXlevel <= 0
  \/ DblLeq(Oh, DblZero) \/ DblLess(Oha, DblZero)
  \/ DblLess(De, DblZero) \/ DblLess(Ec, DblZero)
  \/ DblLeq(tmax, DblZero) \/ DblLeq(dtmax, DblZero)
  \/ DblLess(tmax, dtmax)

\* the parameters as a record, with the verdict of lines 55-56
ParamsRecord(iv, dv, Oha) ==
  [CaseNo |-> iv[S_CaseNo], MAXlevel |-> iv[S_MAXlevel], tmax |-> dv[S_tmax],
   Oh |-> dv[S_Oh], Oha |-> Oha, De |-> dv[S_De], Ec |-> dv[S_Ec], dtmax |-> dv[S_dtmax],
   invalid |-> InvalidParams(iv[S_CaseNo], iv[S_MAXlevel], dv[S_tmax], dv[S_Oh], Oha,
                             dv[S_De], dv[S_Ec], dv[S_dtmax])]

\* line 50: Oha = param_double("Oha", 1e-2 * Oh)
ReadOha(S, fs, uerr, iv, dv) ==
  ParamsRecord(iv, dv, param_double(S, fs, S_Oha, DblScale(dv[S_Oh], -2), uerr).val)

\* lines 45-53: the parameters read from the loaded store S
ReadParams(S, fs, uerr) ==
  ReadOha(S, fs, uerr,
          [k \in DOMAIN EngineIntDefaults |-> param_int(S, fs, k, EngineIntDefaults[k]).val],
          [k \in DOMAIN EngineDblDefaults |-> param_double(S, fs, k, EngineDblDefaults[k], uerr).val])

\* lines 40-59: the store loaded from argv[1], the parameters read from it
\* and the check made on them; f is the file argv[1] names
EngineParams(f, uerr) ==
  ReadParams(parse_params_load(FreshWith(SourceLimits), f).S,
             [p \in {"case.params"} |-> f], uerr)

\* line 69: sprintf(logFile, "c%d-log", CaseNo)
LogFileName(n) ==
  <<"c">> \o (IF n < 0 THEN <<"-">> \o DecDigits(-n) ELSE DecDigits(n)) \o <<"-","l","o","g">>

\* the files of the set W written (or made, for a directory) on disk dk
WriteAll(dk, W) ==
  [q \in DOMAIN dk \cup {w.path : w \in W} |->
     IF \E w \in W : w.path = q THEN (CHOOSE w \in W : w.path = q).content ELSE dk[q]]

\* lines 65, 113-118 and logWriting: what a run with valid parameters writes
EngineWrites(cwd, log) ==
  { [path |-> Append(cwd, S_intermediate), content |-> Dir],
    [path |-> Append(cwd, S_dump), content |-> File(<<S_dump>>)],
    [path |-> cwd \o <<S_intermediate, S_snapshot>>, content |-> File(<<S_dump>>)],
    [path |-> Append(cwd, log), content |-> File(<<log>>)] }

\* lines 65-89: the run proper, with log file name log
EngineValid(cwd, dk, rc, P, log, W) ==
  [rec |-> [status |-> rc, cwd |-> cwd, wrote |-> {w.path : w \in W},
            logFile |-> log, CaseNo |-> P.CaseNo,
            restored |-> Append(cwd, S_dump) \in DOMAIN dk],
   disk |-> WriteAll(dk, W), params |-> P]

\* lines 55-59: invalid parameters end the engine with 1 before anything is
\* written
EngineChecked(cwd, dk, rc, P) ==
  IF P.invalid
  THEN [rec |-> [NoEngine EXCEPT !.status = 1, !.cwd = cwd, !.CaseNo = P.CaseNo],
        disk |-> dk, params |-> P]
  ELSE EngineValid(cwd, dk, rc, P, LogFileName(P.CaseNo),
                   EngineWrites(cwd, LogFileName(P.CaseNo)))

\* argv[1] = case.params as the engine finds it in directory cwd
EngineFile(pf, dk) ==
  IF pf \in DOMAIN dk /\ dk[pf].kind = "file"
  THEN [exists |-> TRUE, lines |-> dk[pf].data]
  ELSE [exists |-> FALSE, lines |-> <<>>]

\* one run of the engine in directory cwd with argv[1] = case.params, which
\* ends with status rc when it comes to run(): what it did, the disk it
\* leaves and the parameters it read. Lines 92-96: the start from the checkpoint dumpFile when there is
\* one
EngineRun(cwd, dk, rc, uerr) ==
  EngineChecked(cwd, dk, rc, EngineParams(EngineFile(Append(cwd, S_case_params), dk), uerr))


(***************************************************************************)
(* Case driver, continued: the engine run and the end of the script       *)
(***************************************************************************)
\* a failure branch that reports 1 instead of $?
EngineStatusFlat(rc) == IF rc = 0 THEN 0 ELSE 1

\* lines 230-234: if CMD; then EXIT_CODE=0; else EXIT_CODE=$?; fi
EngineStatus(rc) == IF rc = 0 THEN 0 ELSE rc

\* lines 229-234: what the driver keeps of the run E of the engine
Launched(d, r, E) ==
  /\ drv' = [drv EXCEPT ![d] =
        [r EXCEPT !.pc = "summary", !.launched = TRUE,
                  !.ompPassed = r.OMP_THREADS,
                  !.engine = E.rec,
                  !.log = Append(@, <<"run", E.rec.status>>),
                  !.EXIT_CODE = EngineStatus(E.rec.status)]]
  /\ disk' = E.disk

\* lines 229-234: the engine runs as a child in the case directory, with
\* OMP_NUM_THREADS set and case.params as its argument, and the driver waits
\* for it (uerr: what the C library makes of an underflow)
RunEngine(d) ==
  /\ drv[d].pc = "run"
  /\ IF IsFile(Append(drv[d].cwd, ExecutableName(drv[d])))
     THEN \E uerr \in BOOLEAN :
            Launched(d, drv[d], EngineRun(drv[d].cwd, disk, world.engineRc, uerr))
     ELSE /\ drv' = [drv EXCEPT ![d] =
               [@ EXCEPT !.pc = "summary", !.EXIT_CODE = EngineStatus(127)]]
          /\ disk' = disk
  /\ UNCHANGED world

\* lines 236-247: the summary, then exit "$EXIT_CODE"
FinalStatus(r) == r.EXIT_CODE

\* line 199: CASE_LOG_FILE="c${CASE_NO}-log"
CaseLogFile(r) == <<"c">> \o r.CASE_NO \o <<"-","l","o","g">>

\* lines 238-242: on success the log file is named when it is there
LogNote(r) ==
  IF r.EXIT_CODE = 0 /\ IsFile(Append(r.cwd, CaseLogFile(r)))
  THEN [r EXCEPT !.notes = @ \cup {"log_file"}] ELSE r

Summary(d) ==
  /\ drv[d].pc = "summary"
  /\ drv' = [drv EXCEPT ![d] = Exit(LogNote(drv[d]), FinalStatus(drv[d]), "end")]
  /\ UNCHANGED <<disk, world>>

DriverStep(d) ==
  \/ ParseArg(d) \/ CheckTrailing(d) \/ CheckThreads(d) \/ CheckQcc(d)
  \/ CheckParamFile(d) \/ CheckSrcFile(d) \/ ReadCaseNo(d)
  \/ Mkdir(d) \/ CpParams(d) \/ CpSrc(d) \/ Build(d)
  \/ CheckRestart(d) \/ RunEngine(d) \/ Summary(d)


(***************************************************************************)
(* Inputs of the driver                                                    *)
(***************************************************************************)
V4  == <<"4">>
V0  == <<"0">>
V2  == <<"2">>
V12 == <<"1","2">>
V04 == <<"0","4">>
Vm3 == <<"-","3">>
Vp4 == <<"+","4">>
Vx  == <<"x">>
P_p == <<"p">>
P_q == <<"q">>
E_e == <<"e">>
E_m == <<"m">>

ArgLists ==
  { <<>>, <<T_threads, V4>>, <<T_threads, V0>>, <<T_threads, Vm3>>,
    <<T_threads, V04>>, <<T_threads, Vp4>>, <<T_threads, Vx>>, <<T_threads, V12>>,
    <<T_threads>>, <<T_threads, <<>>>>, <<T_threadsEq \o V4>>, <<T_threadsEq>>,
    <<T_threadsEq \o V0>>, <<T_CPUs, V4>>, <<T_cpus, V0>>, <<T_CPUsEq \o V2>>,
    <<T_cpusEq \o Vm3>>, <<T_CPUs>>, <<T_mpi>>, <<T_mpi, T_cpus, V4>>,
    <<T_h>>, <<T_threads, V0, T_help>>, <<T_threads, V0, T_threads, V4>>,
    <<T_threads, V4, T_threads, V04>>, <<T_threads, T_mpi>>,
    <<T_exec, E_m>>, <<T_execEq \o E_e>>, <<T_exec>>, <<T_exec, E_e \o S_dotc>>,
    <<P_p>>, <<P_q>>, <<P_p, P_p>>, <<T_dd>>, <<T_dd, P_p>>, <<<<"-","x">>>>,
    <<P_p, T_threads, V2>> }

\* the line CaseNo=<v>
CaseLine(v) == S_CaseNo \o <<"=">> \o v

CaseValues ==
  { <<"9","9","9">>, <<"0","9","9","9">>, <<"0">>, <<"1","0","0","0">>,
    <<"0","1","0","0","0">>, <<"0","7","7","7">>, <<"0","1","7","5","0">>,
    <<"2","0","0","0">>, <<"0","0","0","8">>, <<"1","0","0","0","0">>,
    <<"a","b","c">>, <<"-","5">>, <<"1","e","3">>, <<" ">>, <<>> }

ParamFiles ==
  { <<CaseLine(v)>> : v \in CaseValues } \cup
  { <<>>,
    << <<"O","h","=","1">> >>,
    << S_CaseNo >>,
    << <<"#">> \o CaseLine(<<"9","9","9">>), CaseLine(<<"1","0","0","0">>) >>,
    << <<" ">> \o S_CaseNo \o <<" ","=","\t">> \o <<"1","0","0","0">> \o <<" ","#","c">> >>,
    << CaseLine(<<"1","0","0","0">>), CaseLine(<<"2","0","0","0">>) >>,
    << CaseLine(<<"9","9","9">>), CaseLine(<<"2","0","0","0">>) >>,
    << CaseLine(<<"1","0","=","0","0">>) >>,
    << CaseLine(<<"1","0","0","0","=","1">>) >> }

SrcText == File(<< <<"s","r","c">> >>)

\* the repository before a run: the engine source, a second source e.c, the
\* parameter file p, and default.params when it exists
DiskWith(defaults) ==
  LET base == [q \in {<<S_simCases, S_default_exec>>, <<S_simCases, E_e \o S_dotc>>, <<P_p>>}
                 |-> IF q = <<P_p>> THEN File(<<CaseLine(<<"2","0","0","0">>)>>) ELSE SrcText]
  IN IF defaults = {} THEN base
     ELSE [q \in DOMAIN base \cup {<<S_default_params>>} |->
             IF q = <<S_default_params>> THEN File(CHOOSE f \in defaults : TRUE) ELSE base[q]]

\* the environment of a run: is qcc on PATH, and the exit status of each
\* external command (at most one of them fails)
WorldOk == [qcc |-> TRUE, mkdirRc |-> 0, cpParamsRc |-> 0, cpSrcRc |-> 0,
            buildRc |-> 0, engineRc |-> 0]

Worlds ==
  { WorldOk, [WorldOk EXCEPT !.qcc = FALSE], [WorldOk EXCEPT !.mkdirRc = 1],
    [WorldOk EXCEPT !.cpParamsRc = 1], [WorldOk EXCEPT !.cpSrcRc = 1],
    [WorldOk EXCEPT !.buildRc = 2], [WorldOk EXCEPT !.engineRc = 1],
    [WorldOk EXCEPT !.engineRc = 3], [WorldOk EXCEPT !.engineRc = 139] }

\* the configuration store of a process that has not started
StoreIdle ==
  /\ entries = <<>> /\ count = 0 /\ loaded = FALSE /\ warned = FALSE
  /\ pfile = "" /\ files = <<>> /\ ret = <<>> /\ hist = <<>>
  /\ obs = <<>> /\ acc = <<>>

\* one driver invocation
InitDriver ==
  /\ \E args \in ArgLists : drv = [d \in Drivers |-> IF d = "A" THEN NewRun(args) ELSE Idle]
  /\ \E fs \in {{f} : f \in ParamFiles} \cup {{}} : disk = DiskWith(fs)
  /\ world \in Worlds
  /\ StoreIdle

NextDriver == \E d \in Drivers : DriverStep(d) /\ UNCHANGED storeVars

SpecDriver == InitDriver /\ [][NextDriver]_vars


\* argument lists that spell the same request in different ways
PairArgs ==
  { <<T_threads, V2>>, <<T_CPUs, V2>>, <<T_cpus, V2, T_mpi>>, <<T_threads, V0>>,
    <<T_cpus, V0>>, <<T_threadsEq \o V2>>, <<T_CPUsEq \o V2>>, <<T_threads>>,
    <<T_CPUs>>, <<P_p>>, <<T_mpi, P_p>>, <<T_threads, T_mpi>>, <<T_cpus, T_mpi>> }

PairWorlds ==
  { WorldOk, [WorldOk EXCEPT !.buildRc = 2], [WorldOk EXCEPT !.engineRc = 3] }

\* two driver invocations started from the same repository
InitPair ==
  /\ \E a \in PairArgs, b \in PairArgs :
       drv = [d \in Drivers |-> IF d = "A" THEN NewRun(a) ELSE NewRun(b)]
  /\ \E v \in {<<"1","0","0","0">>, <<"9","9","9">>} : disk = DiskWith({<<CaseLine(v)>>})
  /\ world \in PairWorlds
  /\ StoreIdle

SpecPair == InitPair /\ [][NextDriver]_vars

(***************************************************************************)
(* Properties of the case driver                                           *)
(***************************************************************************)
\* position of a step, or of the check a run ended at, in the script
Rank(x) ==
  CASE x \in {"parse", "help", "usage"} -> 0
    [] x = "trailing" -> 1
    [] x = "threads" -> 2
    [] x = "qcc" -> 3
    [] x = "paramfile" -> 4
    [] x = "srcfile" -> 5
    [] x \in {"caseno", "caseno_absent", "caseno_numeric", "caseno_floor", "awk"} -> 6
    [] x = "mkdir" -> 7
    [] x = "cp_params" -> 8
    [] x = "cp_src" -> 9
    [] x = "build" -> 10
    [] x = "restart" -> 11
    [] x = "run" -> 12
    [] x = "summary" -> 13
    [] x = "end" -> 14

Started(r) == r.pc # "off"
Position(r) == IF r.pc = "done" THEN Rank(r.exitAt) ELSE Rank(r.pc)
\* the run went past the step of rank k without ending there
Passed(r, k) == Started(r) /\ Position(r) > k
\* the run ended at a pre-flight check
PreflightFailed(r) ==
  r.pc = "done" /\ r.exitAt \in {"usage", "trailing", "threads", "qcc", "paramfile",
                                 "srcfile", "caseno_absent", "caseno_numeric",
                                 "caseno_floor"}
NothingStaged(r) == r.created = {} /\ r.log = <<>> /\ ~r.launched

\* the number a string of decimal digits denotes
Denoted(s) == NumVal(s, 10)
DenotesPositive(s) == AllDigits(s) /\ Denoted(s) > 0
\* a positive decimal numeral without sign and without leading zero
CanonicalPositive(s) ==
  /\ s # <<>>
  /\ \A i \in 1..Len(s) : s[i] \in Digits
  /\ s[1] \in Digits \ {"0"}

\* C1: every pre-flight failure (bad thread count, bad or extra argument, no
\* qcc, no parameter file, no engine source, CaseNo absent, non-numeric or
\* denoting a number below 1000) ends the run with exit code 1 and nothing
\* staged; staging is reached only when none of them holds.
C1_PreflightFatal ==
  \A d \in Drivers :
    LET r == drv[d] IN
    /\ PreflightFailed(r) => r.exitCode = 1 /\ NothingStaged(r)
    /\ ~NothingStaged(r) =>
         /\ r.argv = <<>>
         /\ DenotesPositive(r.OMP_THREADS)
         /\ world.qcc
         /\ IsFile(ParamPath(r))
         /\ IsFile(SrcPath(r))
         /\ AllDigits(r.CASE_NO)
         /\ Denoted(r.CASE_NO) >= 1000

\* C2: a CaseNo that is a string of decimal digits denoting a number below
\* 1000 (leading zeros or not) makes the driver exit non-zero before it creates
\* anything; one denoting a number >= 1000 passes the floor check.
C2_CaseNoFloor ==
  \A d \in Drivers :
    LET r == drv[d] IN
    (Passed(r, 5) /\ r.pc # "caseno" /\ AllDigits(r.CASE_NO)) =>
      /\ Denoted(r.CASE_NO) < 1000 =>
           r.pc = "done" /\ r.exitCode # 0 /\ NothingStaged(r)
      /\ Denoted(r.CASE_NO) >= 1000 => r.exitAt # "caseno_floor"

\* C3: a run that launched the engine ends with the engine's exit status,
\* which it holds from the moment the engine has returned.
C3_ExitCodeIsEngines ==
  \A d \in Drivers :
    LET r == drv[d] IN
    /\ (r.launched /\ r.pc = "done") => r.exitCode = r.engine.status /\ r.exitAt = "end"
    /\ (r.launched /\ r.pc = "summary") => r.EXIT_CODE = r.engine.status
    /\ r.launched => r.pc \in {"summary", "done"}

C3_Witness ==
  \E d \in Drivers : drv[d].launched /\ drv[d].pc = "done" /\ drv[d].exitCode = 139

StepOrder == <<"mkdir", "cp_params", "cp_src", "build", "run">>

\* C4: the steps run in the order mkdir, cp params, cp source, build, engine;
\* each runs only after all earlier ones succeeded (the copies are then in the
\* case directory), and a run in which one failed ends non-zero with that
\* step's status and without launching the engine.
C4_StagedBuildRunOrder ==
  \A d \in Drivers :
    LET r == drv[d] IN
    /\ Len(r.log) <= Len(StepOrder)
    /\ \A i \in 1..Len(r.log) :
         /\ r.log[i][1] = StepOrder[i]
         /\ i < Len(r.log) => r.log[i][2] = 0
    /\ Len(r.log) >= 4 =>
         /\ IsFile(CaseFile(r, S_case_params))
         /\ disk[CaseFile(r, S_case_params)] = disk[ParamPath(r)]
         /\ IsFile(CaseFile(r, r.EXEC_CODE))
         /\ disk[CaseFile(r, r.EXEC_CODE)] = disk[SrcPath(r)]
    /\ r.launched <=> Len(r.log) = 5
    /\ (r.log # <<>> /\ Len(r.log) < 5 /\ r.log[Len(r.log)][2] # 0) =>
         r.pc = "done" /\ r.exitCode = r.log[Len(r.log)][2] /\ r.exitCode # 0

C4_Witness ==
  \E d \in Drivers :
    /\ drv[d].pc = "done" /\ Len(drv[d].log) = 4
    /\ drv[d].log[4] = <<"build", 2>> /\ drv[d].exitCode = 2

\* C5 as stated: the thread count is accepted exactly when it denotes a
\* positive integer, and any other value ends the run with exit code 1 before
\* anything is staged.
C5_AcceptsIffPositive ==
  \A d \in Drivers :
    LET r == drv[d] IN
    /\ (Passed(r, 1) /\ r.pc # "threads") =>
         (r.exitAt # "threads" <=> DenotesPositive(r.OMP_THREADS))
    /\ (r.pc = "done" /\ ~DenotesPositive(r.OMP_THREADS)) =>
         r.exitCode = 1 /\ NothingStaged(r)

\* C5 amended: in a run that reaches the thread-count check (no help request
\* and no usage error before it) the last value given is accepted exactly when
\* it is a decimal numeral of a positive integer without sign and without
\* leading zero; every other value ends the run there with exit code 1 and
\* nothing staged, built or launched. A run that does not reach the check
\* stages nothing either.
C5_AcceptsIffCanonical ==
  \A d \in Drivers :
    LET r == drv[d] IN
    /\ (Passed(r, 1) /\ r.pc # "threads") =>
         (r.exitAt # "threads" <=> CanonicalPositive(r.OMP_THREADS))
    /\ r.exitAt = "threads" => r.exitCode = 1 /\ NothingStaged(r)
    /\ ~NothingStaged(r) => CanonicalPositive(r.OMP_THREADS)
    /\ (r.pc = "done" /\ r.exitAt \in {"help", "usage", "trailing"}) =>
         r.exitCode \in {0, 1} /\ NothingStaged(r)

C5_Witness ==
  \E d \in Drivers :
    /\ drv[d].pc = "done" /\ drv[d].exitAt = "threads"
    /\ drv[d].OMP_THREADS = V04 /\ drv[d].exitCode = 1


\* an argument list with the thread option spelled --threads and without
\* --mpi, wherever these stand as options (not as the value of an option, and
\* not after --)
RECURSIVE CanonArgs(_)
CanonArgs(a) ==
  IF a = <<>> THEN <<>>
  ELSE LET t == Head(a) IN
    IF t = T_mpi THEN CanonArgs(Tail(a))
    ELSE IF t \in {T_threads, T_CPUs, T_cpus} THEN
      IF Len(a) >= 2 THEN <<T_threads, a[2]>> \o CanonArgs(SubSeq(a, 3, Len(a)))
      ELSE <<T_threads>>
    ELSE IF HasPrefix(t, T_CPUsEq) \/ HasPrefix(t, T_cpusEq) THEN
      <<T_threadsEq \o AfterEq(t)>> \o CanonArgs(Tail(a))
    ELSE IF t = T_exec THEN
      IF Len(a) >= 2 THEN <<t, a[2]>> \o CanonArgs(SubSeq(a, 3, Len(a))) ELSE <<t>>
    ELSE IF t = T_dd THEN a
    ELSE <<t>> \o CanonArgs(Tail(a))

\* what a finished run did, the diagnostics apart
Effect(r) ==
  [exitCode |-> r.exitCode, exitAt |-> r.exitAt, created |-> r.created,
   log |-> r.log, launched |-> r.launched, ompPassed |-> r.ompPassed,
   notes |-> r.notes \ {"warn_mpi", "warn_cpus"}]

\* C6: two finished runs whose argument lists differ only in the spelling of
\* the thread option (--threads, --CPUs, --cpus) and in --mpi agree on
\* acceptance, staged files, OMP_NUM_THREADS, and exit code.
C6_AliasesEquivalent ==
  (drv["A"].pc = "done" /\ drv["B"].pc = "done"
     /\ CanonArgs(drv["A"].args) = CanonArgs(drv["B"].args)) =>
    Effect(drv["A"]) = Effect(drv["B"])

C6_Witness ==
  /\ drv["A"].pc = "done" /\ drv["B"].pc = "done"
  /\ drv["A"].args = <<T_threads, V2>> /\ drv["B"].args = <<T_cpus, V2, T_mpi>>
  /\ drv["A"].launched /\ drv["B"].ompPassed = V2
  /\ "warn_cpus" \in drv["B"].notes /\ "warn_cpus" \notin drv["A"].notes


\* the paths a run created or wrote, itself or through its engine
Touched(r) == r.created \cup r.engine.wrote
\* the directory simulationCases/<CaseNo> of a run
OwnDir(r) == <<S_simCases, r.CASE_NO>>

\* C17: two invocations with distinct case identifiers never create or write
\* the same path: whatever an invocation creates or overwrites, and the
\* directory its engine works in, lies in its own simulationCases/<CaseNo>.
C17_DisjointCases ==
  /\ \A d \in Drivers :
       /\ \A p \in Touched(drv[d]) : HasPrefix(p, OwnDir(drv[d]))
       /\ drv[d].launched => drv[d].engine.cwd = OwnDir(drv[d])
  /\ drv["A"].CASE_NO # drv["B"].CASE_NO =>
       Touched(drv["A"]) \cap Touched(drv["B"]) = {}

\* both runs went through, one for case 1000 and one for case 2000
C17_Witness ==
  /\ drv["A"].pc = "done" /\ drv["B"].pc = "done"
  /\ drv["A"].CASE_NO = <<"1","0","0","0">> /\ drv["B"].CASE_NO = <<"2","0","0","0">>
  /\ drv["A"].engine.wrote # {} /\ drv["B"].engine.wrote # {}
  /\ Cardinality(drv["A"].created) = 4 /\ Cardinality(drv["B"].created) = 4

\* C18: in every run that launches the engine, the case identifier of the
\* driver denotes the CaseNo the engine reads from the staged case.params, and
\* the log file the engine writes is the one the driver expects.
C18_SameCaseNo ==
  \A d \in Drivers :
    LET r == drv[d] IN
    r.launched =>
      /\ Denoted(r.CASE_NO) = r.engine.CaseNo
      /\ r.engine.wrote # {} => r.engine.logFile = CaseLogFile(r)

\* C19: the driver gives the resume notice exactly when, at its check, the
\* case directory holds the checkpoint the engine writes and restores from.
C19_ResumeNotice ==
  \A d \in Drivers :
    Passed(drv[d], 11) =>
      ("restart_notice" \in drv[d].notes <=> drv[d].ckptAtCheck)


(***************************************************************************)
(* The store as a process: its files, its operations                       *)
(***************************************************************************)
MaxLines == 2
\* the count of loads made by lookups is kept up to this number
MaxLazy == 2
\* the count of loads that found no file is kept up to this number
MaxFailed == 2

Paths == {"case.params", "alt.params", "gone.params"}

\* text lines a parameter file is made of
LinePool ==
  { <<"a","=","1">>,
    <<" ","a"," ","=","\t","2"," ","#","x">>,
    <<"b","=","1","=","2">>,
    <<"a","b","c","=","1">>,
    <<"a","b","=","1","2","3","4">>,
    <<"#","c","=","1">>,
    <<"c","=","3">>,
    <<"c","=","\t">>,
    <<"=","1">>,
    <<"a","=","1"," ","#"," "," "," "," ","b","=","2">> }

RECURSIVE SeqsUpTo(_, _)
SeqsUpTo(S, n) ==
  IF n = 0 THEN {<<>>}
  ELSE LET shorter == SeqsUpTo(S, n - 1) IN
       shorter \cup {Append(q, x) : q \in shorter, x \in S}

Present(lines) == [exists |-> TRUE, lines |-> lines]
Absent == [exists |-> FALSE, lines |-> <<>>]

\* a second parameter file, with more keys than the store has room for
AltLines == << <<"c","=","3">>, <<"z","=","7">>, <<"a","=","5">> >>

SetKeys == {<<"a">>, <<"z","z","z">>}
SetValues == {<<"9">>}
LookupKeys == {<<"a">>, <<"b">>, <<"c">>, <<"a","b">>, <<"a","b","c">>, <<"z">>}
Default == <<"d","f","l","t">>
ArgvChoices == { <<"prog">>, <<"prog", "">>, <<"prog", "alt.params">>,
                 <<"prog", "gone.params">> }

SetStore(S) ==
  /\ entries' = S.entries /\ count' = S.count /\ loaded' = S.loaded
  /\ warned' = S.warned /\ pfile' = S.pfile

\* bookkeeping of a load of path p with result R: ret describes the last
\* operation that changed the store (again: p had been loaded before; key,
\* value, room: what a set was called with, and whether the key was there or
\* a slot was free), hist
\* keeps the view the first successful load of p produced, obs whether a load
\* has been made, how many of the loads were made by a lookup, how many found
\* no file, which path the first of those named and whether a load has
\* succeeded since
Loaded(p, R, op) ==
  /\ SetStore(R.S)
  /\ obs' = [anyLoad |-> TRUE,
             lazy |-> IF op = "lazy" THEN Min(obs.lazy + 1, MaxLazy) ELSE obs.lazy,
             failed |-> IF R.rc # 0 THEN Min(obs.failed + 1, MaxFailed) ELSE obs.failed,
             first |-> IF R.rc # 0 /\ obs.failed = 0 THEN p ELSE obs.first,
             okSince |-> obs.okSince \/ (R.rc = 0 /\ obs.failed > 0)]
  /\ ret' = [op |-> op, path |-> p, rc |-> R.rc, warn |-> R.warn,
             again |-> hist[p].n > 0, key |-> <<>>, value |-> <<>>, room |-> FALSE]
  /\ hist' = IF R.rc # 0 \/ hist[p].n > 0 THEN hist
             ELSE [hist EXCEPT ![p] = [n |-> 1, view |-> View(R.S)]]

\* parse_params_load(p), called by the program
Load(p) ==
  /\ Loaded(p, parse_params_load(Cur, files[p]), "load")
  /\ UNCHANGED <<files, acc, drvVars>>

\* lines 175-182: the file name kept for later loads
ArgvFile(argv) == IF Len(argv) > 1 /\ argv[2] # "" THEN argv[2] ELSE "case.params"

\* lines 172-185
InitFromArgv(argv) ==
  /\ LET S == [Cur EXCEPT !.pfile = ArgvFile(argv)] IN
     Loaded(S.pfile, parse_params_load(S, files[S.pfile]), "init")
  /\ UNCHANGED <<files, acc, drvVars>>

\* parse_params_set_value(k, v), called by the program
SetValue(k, v) ==
  /\ SetStore(parse_params_set_value(Cur, k, v))
  /\ ret' = [op |-> "set", path |-> "", rc |-> 0, warn |-> FALSE, again |-> FALSE,
             key |-> k, value |-> v,
             room |-> parse_params_find_key(Cur, k) >= 0 \/ count < Cur.lim.entries]
  /\ UNCHANGED <<files, hist, obs, acc, drvVars>>

\* parse_param_string(k, d), called by the program: it changes the store
\* only when it is the first to load
Lookup(k, d) ==
  /\ IF parse_param_string(Cur, files, k, d).opened
     THEN Loaded(pfile, parse_params_load(Cur, files[pfile]), "lazy") /\ UNCHANGED acc
     ELSE UNCHANGED storeVars
  /\ UNCHANGED <<files, drvVars>>

NoHist == [n |-> 0, view |-> <<>>]

\* a process at start-up, in a directory that holds case.params (or not)
InitStore ==
  /\ entries = Fresh.entries /\ count = Fresh.count /\ loaded = Fresh.loaded
  /\ warned = Fresh.warned /\ pfile = Fresh.pfile
  /\ \E f \in {Present(l) : l \in SeqsUpTo(LinePool, MaxLines)} \cup {Absent} :
       files = [p \in Paths |-> IF p = "case.params" THEN f
                                ELSE IF p = "alt.params" THEN Present(AltLines)
                                ELSE Absent]
  /\ ret = [op |-> "start", path |-> "", rc |-> 0, warn |-> FALSE, again |-> FALSE,
            key |-> <<>>, value |-> <<>>, room |-> FALSE]
  /\ hist = [p \in Paths |-> NoHist]
  /\ obs = [anyLoad |-> FALSE, lazy |-> 0, failed |-> 0, first |-> "", okSince |-> FALSE]
  /\ acc = <<>>
  /\ drv = [d \in Drivers |-> Idle]
  /\ disk = <<>>
  /\ world = WorldOk

NextStore ==
  \/ \E p \in Paths : Load(p)
  \/ \E argv \in ArgvChoices : InitFromArgv(argv)
  \/ \E k \in SetKeys, v \in SetValues : SetValue(k, v)
  \/ \E k \in LookupKeys : Lookup(k, Default)

SpecStore == InitStore /\ [][NextStore]_vars


(***************************************************************************)
(* The accessors as a process: a store that holds a value, or one that is  *)
(* still to be loaded, and the calls made on it                            *)
(***************************************************************************)
\* stored strings, each shorter than the value field of the source (256
\* bytes); the scaled field size bounds what a load or a set copies and plays
\* no part in a lookup
RawValues ==
  { <<"1","2">>,
    <<"+","1","2">>,
    <<"-","1","2">>,
    <<"0","1","2">>,
    <<"1","2","a","b","c">>,
    <<"1",".","5">>,
    <<"a","b","c">>,
    <<>>,
    <<" ","1","2">>,
    <<"1","2"," ">>,
    <<"1"," ","2">>,
    <<"2","1","4","7","4","8","3","6","4","7">>,
    <<"2","1","4","7","4","8","3","6","4","8">>,
    <<"-","2","1","4","7","4","8","3","6","4","8">>,
    <<"-","2","1","4","7","4","8","3","6","4","9">>,
    <<"9","9","9","9","9","9","9","9","9","9","9">>,
    <<"0","x","1","0">>,
    <<"-","-","1">>,
    <<"+"," ","1">>,
    <<"-">>,
    <<"-","0">>,
    <<"1","e","3">>,
    <<"1">>,
    <<"t","r","u","e">>,
    <<"T","R","U","E">>,
    <<"t","R","u","E">>,
    <<"y","e","s">>,
    <<"Y","e","s">>,
    <<"o","n">>,
    <<"O","N">>,
    <<"0">>,
    <<"f","a","l","s","e">>,
    <<"F","a","l","s","e">>,
    <<"n","o">>,
    <<"N","O">>,
    <<"o","f","f">>,
    <<"O","f","f">>,
    <<"t","r","u","e","e">>,
    <<"t","r","u">>,
    <<"y","e","s","!">>,
    <<"o","n"," ">>,
    <<"2">>,
    <<"t">>,
    <<"o","n","o","f","f">>,
    <<"i","n","f">>,
    <<"-","i","n","f">>,
    <<"I","N","F">>,
    <<"i","n","f","i","n","i","t","y">>,
    <<"n","a","n">>,
    <<"N","a","N">>,
    <<"n","a","n","(","1",")">>,
    <<"n","a","n","x">>,
    <<"0","x","1","p","3">>,
    <<"1","e","9","9","9">>,
    <<"-","1","e","9","9","9">>,
    <<"1","e","-","9","9","9">>,
    <<"1","e">>,
    <<"e","5">>,
    <<".">>,
    <<".","5">>,
    <<"5",".">>,
    <<"1",".","5"," ">>,
    <<"\t","1",".","5">>,
    <<"1",".","5","x">>,
    <<"1",",","5">>,
    <<"-","2",".","5","e","-","3">>,
    <<"1","E","3">>,
    <<"1","0","0","0">>,
    <<"1","e","3","0","8">>,
    <<"2","e","3","0","8">>,
    <<"0",".","0">>,
    <<"1","e","+","2">> }

AccKey == <<"k">>
AccKeys == {AccKey, <<"n">>}
IntDefaults == {5, -1}
BoolDefaults == {TRUE, FALSE}
DblDefaults == {DblNorm(FALSE, <<"7">>, 0)}

\* case.params of a store that is still to be loaded
AccFiles ==
  {Absent, Present(<< <<"k","=","o","n">> >>), Present(<< <<"k","=","1","2"," ">> >>),
   Present(<< <<"k","=","1","e","3">> >>), Present(<< <<"k","=","x">> >>)}

\* a process whose store was loaded and holds k = raw, or one that has not
\* loaded yet
InitAccess ==
  /\ \/ \E raw \in RawValues :
          /\ entries = [Fresh.entries EXCEPT ![0] = [key |-> AccKey, value |-> raw]]
          /\ count = 1 /\ loaded = TRUE
          /\ files = [p \in Paths |-> Absent]
     \/ /\ entries = Fresh.entries /\ count = 0 /\ loaded = FALSE
        /\ \E f \in AccFiles : files = [p \in Paths |-> IF p = "case.params" THEN f ELSE Absent]
  /\ warned = FALSE /\ pfile = Fresh.pfile
  /\ ret = [op |-> "start", path |-> "", rc |-> 0, warn |-> FALSE, again |-> FALSE,
            key |-> <<>>, value |-> <<>>, room |-> FALSE]
  /\ hist = [p \in Paths |-> NoHist]
  /\ obs = [anyLoad |-> loaded, lazy |-> 0, failed |-> 0, first |-> "", okSince |-> FALSE]
  /\ acc = [fn |-> "none"]
  /\ drv = [d \in Drivers |-> Idle]
  /\ disk = <<>>
  /\ world = WorldOk

\* a call of an accessor with result R: the store as the lookup leaves it and
\* what the call returned and printed
Access(fn, k, d, R) ==
  /\ IF R.opened
     THEN Loaded(pfile, parse_params_load(Cur, files[pfile]), "lazy")
     ELSE UNCHANGED <<entries, count, loaded, warned, pfile, ret, hist, obs>>
  /\ acc' = [fn |-> fn, key |-> k, dflt |-> d, val |-> R.val, warn |-> R.warn,
             opened |-> R.opened]
  /\ UNCHANGED <<files, drvVars>>

ParamString(k, d) == Access("string", k, d, param_string(Cur, files, k, d))
ParamInt(k, d)    == Access("int", k, d, param_int(Cur, files, k, d))
ParamBool(k, d)   == Access("bool", k, d, param_bool(Cur, files, k, d))
ParamDouble(k, d) ==
  \E uerr \in BOOLEAN : Access("double", k, d, param_double(Cur, files, k, d, uerr))

NextAccess ==
  \/ \E k \in AccKeys : ParamString(k, Default)
  \/ \E k \in AccKeys, d \in IntDefaults : ParamInt(k, d)
  \/ \E k \in AccKeys, d \in BoolDefaults : ParamBool(k, d)
  \/ \E k \in AccKeys, d \in DblDefaults : ParamDouble(k, d)

SpecAccess == InitAccess /\ [][NextAccess]_vars


(***************************************************************************)
(* The engine as a process: started in a case directory with case.params   *)
(* as its argument                                                         *)
(***************************************************************************)
\* the line <key>=<v>
ParamLine(key, v) == key \o <<"=">> \o v

\* lines a parameter file of the engine is made of
EngineLines ==
  { ParamLine(S_CaseNo, <<"9","9","9">>), ParamLine(S_CaseNo, <<"1","0","0","0">>),
    ParamLine(S_CaseNo, <<"a","b","c">>),
    ParamLine(S_MAXlevel, <<"0">>), ParamLine(S_MAXlevel, <<"-","3">>),
    ParamLine(S_MAXlevel, <<"7">>),
    ParamLine(S_Oh, <<"0">>), ParamLine(S_Oh, <<"-","1">>), ParamLine(S_Oh, <<"2">>),
    ParamLine(S_Oh, <<"n","a","n">>), ParamLine(S_Oh, <<"i","n","f">>),
    ParamLine(S_Oh, <<"1","e","9","9","9">>),
    ParamLine(S_Oha, <<"-","1">>), ParamLine(S_Oha, <<"0">>),
    ParamLine(S_Oha, <<"n","a","n">>),
    ParamLine(S_De, <<"-","1">>), ParamLine(S_De, <<"0">>), ParamLine(S_De, <<"N","a","N">>),
    ParamLine(S_Ec, <<"-","0",".","5">>), ParamLine(S_Ec, <<"0">>),
    ParamLine(S_tmax, <<"0">>), ParamLine(S_tmax, <<"1","e","-","6">>),
    ParamLine(S_tmax, <<"n","a","n">>), ParamLine(S_tmax, <<"1","e","-","9","9","9">>),
    ParamLine(S_dtmax, <<"0">>), ParamLine(S_dtmax, <<"2","e","2">>),
    ParamLine(S_dtmax, <<"1","e","3">>), ParamLine(S_dtmax, <<"n","a","n">>) }

\* parameter files of at most two lines
EngineFiles ==
  {<<>>} \cup {<<l>> : l \in EngineLines} \cup {<<l, m>> : l \in EngineLines, m \in EngineLines}

\* the case directory the engine is started in
EngineCwd == <<S_simCases, <<"1","0","0","0">>>>

\* a case directory that holds case.params (or not), the engine not started
InitEngine ==
  /\ \/ disk = <<>>
     \/ \E f \in EngineFiles :
          disk = [q \in {Append(EngineCwd, S_case_params)} |-> File(f)]
  /\ world \in {WorldOk, [WorldOk EXCEPT !.engineRc = 3]}
  /\ drv = [d \in Drivers |-> Idle]
  /\ entries = <<>> /\ count = 0 /\ loaded = FALSE /\ warned = FALSE
  /\ pfile = "" /\ files = <<>> /\ ret = <<>> /\ hist = <<>> /\ obs = <<>>
  /\ acc = [fn |-> "none"]

\* what is kept of a start of the engine: the parameters it read, what it did
\* and the disk it found
EngineStarted(E) ==
  /\ acc' = [fn |-> "engine", params |-> E.params, rec |-> E.rec, before |-> disk]
  /\ disk' = E.disk

\* main() of the engine, run once (uerr: what the C library makes of an
\* underflow)
EngineStart ==
  /\ acc.fn = "none"
  /\ \E uerr \in BOOLEAN :
       EngineStarted(EngineRun(EngineCwd, disk, world.engineRc, uerr))
  /\ UNCHANGED <<drv, world, entries, count, loaded, warned, pfile, files, ret, hist, obs>>

NextEngine == EngineStart

SpecEngine == InitEngine /\ [][NextEngine]_vars


(***************************************************************************)
(* Properties of the configuration store                                   *)
(***************************************************************************)
\* The file format as the specification gives it, line by line: the text
\* before the first '#', split at its first '=', both sides trimmed.
RefText(l)  == IF IndexOf(l, "#") = 0 THEN l ELSE SubSeq(l, 1, IndexOf(l, "#") - 1)
RefKey(l)   == RTrim(LTrim(SubSeq(RefText(l), 1, IndexOf(RefText(l), "=") - 1)))
RefValue(l) == RTrim(LTrim(SubSeq(RefText(l), IndexOf(RefText(l), "=") + 1, Len(RefText(l)))))
RefValid(l) == IndexOf(RefText(l), "=") > 0 /\ RefKey(l) # <<>> /\ RefValue(l) # <<>>
RefBlank(l) == \A i \in 1..Len(RefText(l)) : IsSpace(RefText(l)[i])
WellFormed(f) == \A i \in 1..Len(f) : RefValid(f[i]) \/ RefBlank(f[i])
\* the lines of f that write key k, and the value the last of them writes
Writes(f, k) == {i \in 1..Len(f) : RefValid(f[i]) /\ RefKey(f[i]) = k}
Written(f, k) ==
  RefValue(f[CHOOSE i \in Writes(f, k) : \A j \in Writes(f, k) : j <= i])
KeysOf(f) == {RefKey(f[i]) : i \in {j \in 1..Len(f) : RefValid(f[j])}}

LoadOps == {"load", "init", "lazy"}
\* the store is what the last load made of the file at ret.path
JustLoaded == ret.op \in LoadOps /\ ret.rc = 0
LoadedLines == files[ret.path].lines
Get(k) == parse_param_string(Cur, files, k, Default)

\* the file keeps within the store's buffers: every line is read by one
\* fgets, every key and value written fits its field, and there is a slot for
\* every key
FitsKey(k)   == Len(k) <= PARSE_PARAMS_KEY_LEN - 1
FitsValue(v) == Len(v) <= PARSE_PARAMS_VALUE_LEN - 1
WithinLimits(f) ==
  /\ \A i \in 1..Len(f) :
       /\ Len(f[i]) <= LineBufLen - 1
       /\ RefValid(f[i]) => FitsKey(RefKey(f[i])) /\ FitsValue(RefValue(f[i]))
  /\ Cardinality(KeysOf(f)) <= PARSE_PARAMS_MAX_ENTRIES

\* C7 as stated: after a load of any well-formed file a lookup returns, for
\* every key the file writes, the trimmed value written for it, and for every
\* other key the default.
C7_LookupReturnsWritten ==
  (JustLoaded /\ WellFormed(LoadedLines)) =>
    \A k \in LookupKeys \cup KeysOf(LoadedLines) :
      Get(k).val = IF k \in KeysOf(LoadedLines) THEN Written(LoadedLines, k) ELSE Default

\* C7 amended: the same, for well-formed files within the store's limits.
C7_WithinLimits ==
  (JustLoaded /\ WellFormed(LoadedLines) /\ WithinLimits(LoadedLines)) =>
    \A k \in LookupKeys \cup KeysOf(LoadedLines) :
      Get(k).val = IF k \in KeysOf(LoadedLines) THEN Written(LoadedLines, k) ELSE Default

C7_Witness ==
  /\ JustLoaded
  /\ LoadedLines = << <<" ","a"," ","=","\t","2"," ","#","x">>, <<"b","=","1","=","2">> >>
  /\ Get(<<"a">>).val = <<"2">> /\ Get(<<"b">>).val = <<"1","=","2">>
  /\ Get(<<"c">>).val = Default

\* C8 as stated: a key written by several valid lines of the loaded file has
\* one entry, and a lookup returns the value of the last of these lines.
C8_LastWriteWins ==
  JustLoaded =>
    \A k \in KeysOf(LoadedLines) :
      Cardinality(Writes(LoadedLines, k)) >= 2 =>
        /\ Cardinality({i \in 0..(count - 1) : entries[i].key = k}) = 1
        /\ Get(k).val = Written(LoadedLines, k)

\* C8 amended: the same, for files within the store's limits.
C8_LastWriteWinsWithinLimits ==
  (JustLoaded /\ WithinLimits(LoadedLines)) =>
    \A k \in KeysOf(LoadedLines) :
      Cardinality(Writes(LoadedLines, k)) >= 2 =>
        /\ Cardinality({i \in 0..(count - 1) : entries[i].key = k}) = 1
        /\ Get(k).val = Written(LoadedLines, k)

C8_Witness ==
  /\ JustLoaded
  /\ LoadedLines = << <<"a","=","1">>, <<" ","a"," ","=","\t","2"," ","#","x">> >>
  /\ count = 1 /\ Get(<<"a">>).val = <<"2">>

\* entry e is what the read loop makes of some buffer of the file
DefinedBy(f, e) ==
  \E i \in 1..Len(f) :
    \E b \in 1..Len(Fgets(f[i], LineBufLen)) :
      LET S == LoadLine(Fresh, Fgets(f[i], LineBufLen)[b]) IN S.count = 1 /\ S.entries[0] = e

\* C9: after a successful load the entries in use are those the first load
\* of the same file produced, whatever the store held before, and each of
\* them is defined by the file.
C9_LoadReplaces ==
  JustLoaded =>
    /\ View(Cur) = hist[ret.path].view
    /\ \A i \in 1..count : DefinedBy(LoadedLines, View(Cur)[i])

C9_Witness ==
  /\ JustLoaded /\ ret.op = "load" /\ ret.again /\ ret.path = "case.params"
  /\ count = 2 /\ hist["alt.params"].n = 1

\* C10: a load of a file that cannot be opened returns -1, leaves no entry
\* in use and the store marked loaded: a lookup then returns the default,
\* opens nothing and changes nothing.
C10_FailedLoad ==
  /\ ret.op \in LoadOps => (ret.rc = -1 <=> ~files[ret.path].exists)
  /\ (ret.op \in LoadOps /\ ret.rc = -1) =>
       /\ count = 0 /\ loaded
       /\ \A k \in LookupKeys :
            Get(k).val = Default /\ ~Get(k).opened /\ Get(k).S = Cur

C10_Witness ==
  /\ ret.op = "load" /\ ret.rc = -1 /\ count = 0 /\ loaded
  /\ hist["case.params"].n = 1 /\ Len(hist["case.params"].view) = 2

\* some entry in use holds key k
Holds(k) == \E i \in 0..(count - 1) : entries[i].key = k

\* C11: the number of entries in use never exceeds PARSE_PARAMS_MAX_ENTRIES;
\* a set of a key no entry holds, in a full store, changes no entry and not
\* the count; a set of a key some entry holds, in a full store, gives that
\* key the new value and changes nothing else.
C11_CapacityKept ==
  /\ [](count <= PARSE_PARAMS_MAX_ENTRIES)
  /\ [][\A k \in SetKeys, v \in SetValues :
         (SetValue(k, v) /\ count = PARSE_PARAMS_MAX_ENTRIES) =>
           /\ count' = count
           /\ \A i \in Slots : entries'[i].key = entries[i].key
           /\ ~Holds(k) => entries' = entries
           /\ Holds(k) =>
                /\ entries'[parse_params_find_key(Cur, k)].value = v
                /\ \A i \in Slots \ {parse_params_find_key(Cur, k)} :
                     entries'[i] = entries[i]]_vars

\* a full store loaded from a=1, c=3 in which a was then set to 9
C11_Witness ==
  /\ ret.op = "set" /\ count = PARSE_PARAMS_MAX_ENTRIES
  /\ hist["case.params"].view =
       << [key |-> <<"a">>, value |-> <<"1">>], [key |-> <<"c">>, value |-> <<"3">>] >>
  /\ View(Cur) =
       << [key |-> <<"a">>, value |-> <<"9">>], [key |-> <<"c">>, value |-> <<"3">>] >>

\* whether the call R of a lookup loaded, and the store it left
LoadDone(R) == <<R.opened, R.S>>

\* C12: a lookup, through parse_param_string or a typed accessor, loads
\* exactly when no load of any kind (explicit, from argv, or by an earlier
\* lookup; successful or not) has been made; so lookups load at most once, and
\* a lookup after a load leaves the store as it is.
C12_LazyLoadOnce ==
  /\ obs.lazy <= 1
  /\ \A k \in LookupKeys :
       /\ Get(k).opened <=> ~obs.anyLoad
       /\ obs.anyLoad => Get(k).S = Cur
       /\ LoadDone(param_string(Cur, files, k, Default)) = LoadDone(Get(k))
       /\ LoadDone(param_int(Cur, files, k, 5)) = LoadDone(Get(k))
       /\ LoadDone(param_bool(Cur, files, k, TRUE)) = LoadDone(Get(k))
       /\ \A d \in DblDefaults :
            LoadDone(param_double(Cur, files, k, d, TRUE)) = LoadDone(Get(k))

\* a lookup loaded, a later explicit load failed, and lookups load no more
C12_Witness ==
  /\ obs.lazy = 1 /\ ret.op = "load" /\ ret.rc = -1 /\ count = 0
  /\ ~Get(<<"a">>).opened

\* C20: no two entries in use hold the same key, and every key a load
\* inserted (the store not being full) is found by a lookup with that key.
C20_KeysUnique ==
  /\ \A i, j \in 0..(count - 1) : i # j => entries[i].key # entries[j].key
  /\ (JustLoaded /\ count < PARSE_PARAMS_MAX_ENTRIES) =>
       \A k \in KeysOf(LoadedLines) : Get(k).val # Default

\* C21: when the last operation on the store was parse_params_set_value(key,
\* value), called with the key present or a slot free (a load having been made
\* before or not), a lookup of that key returns that value.
C21_SetThenLookup ==
  (ret.op = "set" /\ ret.room) => Get(ret.key).val = ret.value

\* C22: of the loads a process makes (by parse_params_load, by
\* parse_params_init_from_argv or by a lookup), the first that finds no file
\* prints the missing-file warning and no other load prints it, whichever
\* path it names and whether or not a load succeeded in between.
C22_WarnedOnce ==
  /\ ret.op \in LoadOps => (ret.warn <=> (ret.rc = -1 /\ obs.failed = 1))
  /\ warned <=> obs.failed > 0

\* a second load found no file, at another path than the first and after a
\* load that succeeded, and printed nothing
C22_Witness ==
  /\ ret.op \in LoadOps /\ ret.rc = -1 /\ ~ret.warn
  /\ obs.failed = MaxFailed /\ obs.okSince /\ ret.path # obs.first

\* the store after the first n lines of a load of file f
AfterLines(f, n) == LoadLines(ResetForLoad(Cur), SubSeq(f, 1, n))
HeldIn(S, k) == \E i \in 0..(S.count - 1) : S.entries[i].key = k

\* C23: in a load every line of the file is processed by itself. With the
\* text from its first '#' on left out, a line that has an '=' with text
\* that is not blank on both sides of the first one adds an entry for its
\* trimmed key, or updates the one there is, with its trimmed value, and
\* touches no other entry; every other line leaves the store as it was.
C23_LineByLine ==
  JustLoaded =>
    /\ View(Cur) = View(AfterLines(LoadedLines, Len(LoadedLines)))
    /\ \A n \in 1..Len(LoadedLines) :
         LET B == AfterLines(LoadedLines, n - 1)
             A == AfterLines(LoadedLines, n)
             l == LoadedLines[n] IN
         IF RefValid(l)
         THEN /\ A.count = IF HeldIn(B, RefKey(l)) THEN B.count ELSE B.count + 1
              /\ \E i \in 0..(A.count - 1) :
                   A.entries[i] = [key |-> RefKey(l), value |-> RefValue(l)]
              /\ \A i \in 0..(B.count - 1) :
                   B.entries[i].key # RefKey(l) => A.entries[i] = B.entries[i]
         ELSE View(A) = View(B)

(***************************************************************************)
(* Properties of the engine at start-up                                    *)
(***************************************************************************)
\* the constraints on the parameters: CaseNo >= 1000, MAXlevel > 0, Oh > 0,
\* Oha >= 0, De >= 0, Ec >= 0, tmax > 0, 0 < dtmax <= tmax
MeetsConstraints(P) ==
  /\ P.CaseNo >= 1000 /\ P.MAXlevel > 0
  /\ DblLess(DblZero, P.Oh) /\ DblLeq(DblZero, P.Oha)
  /\ DblLeq(DblZero, P.De) /\ DblLeq(DblZero, P.Ec)
  /\ DblLess(DblZero, P.tmax)
  /\ DblLess(DblZero, P.dtmax) /\ DblLeq(P.dtmax, P.tmax)

\* C24: a started engine whose parameters (from the file or the defaults)
\* break one of the constraints has returned 1 and has written nothing, no
\* intermediate directory, no log file and no checkpoint; an engine whose
\* parameters meet them all has gone on to the simulation.
C24_StartupValidation ==
  acc.fn = "engine" =>
    IF MeetsConstraints(acc.params)
    THEN /\ acc.rec.status = world.engineRc
         /\ Append(EngineCwd, S_intermediate) \in acc.rec.wrote
    ELSE /\ acc.rec.status = 1
         /\ acc.rec.wrote = {}
         /\ disk = acc.before

(***************************************************************************)
(* Properties of the typed accessors                                       *)
(***************************************************************************)
\* the string the store holds for key k, NULL when it holds none
Stored(k) ==
  IF Holds(k)
  THEN entries[CHOOSE i \in 0..(count - 1) :
                 entries[i].key = k /\ \A j \in 0..(i - 1) : entries[j].key # k].value
  ELSE NULL

Called == acc.fn # "none"
Raw == Stored(acc.key)
Lowered(s) == [i \in 1..Len(s) |-> tolower(s[i])]
TrueWords == {<<"1">>, <<"t","r","u","e">>, <<"y","e","s">>, <<"o","n">>}
FalseWords == {<<"0">>, <<"f","a","l","s","e">>, <<"n","o">>, <<"o","f","f">>}

\* the text is [+-]digits, blanks around it apart
Unsigned(t) == IF t # <<>> /\ t[1] \in {"+", "-"} THEN Tail(t) ELSE t
IsIntNumeral(s) == AllDigits(Unsigned(RTrim(LTrim(s))))
IsNegative(s) == Head(RTrim(LTrim(s))) = "-"
\* the digits of the numeral without leading zeros
Magnitude(s) == StripLeadingZeros(Unsigned(RTrim(LTrim(s))))
Int32Max == <<"2","1","4","7","4","8","3","6","4","7">>
Int32MinMagnitude == <<"2","1","4","7","4","8","3","6","4","8">>
\* the numeral denotes a number in -2^31 .. 2^31 - 1
InInt32(s) ==
  \/ Len(Magnitude(s)) < 10
  \/ /\ Len(Magnitude(s)) = 10
     /\ ~FracLess(IF IsNegative(s) THEN Int32MinMagnitude ELSE Int32Max, Magnitude(s))
\* the number it denotes
IntOf(s) ==
  IF Magnitude(s) = Int32MinMagnitude THEN INT_MIN
  ELSE IF IsNegative(s) THEN -NumVal(Magnitude(s), 10) ELSE NumVal(Magnitude(s), 10)

WhatOf(fn) ==
  CASE fn = "int" -> "Invalid int" [] fn = "double" -> "Invalid double"
    [] fn = "bool" -> "Invalid bool" [] OTHER -> ""
\* the default as the warning prints it
Shown(fn, d) == IF fn = "bool" THEN (IF d THEN 1 ELSE 0) ELSE d

C14_IntStrict ==
  (Called /\ acc.fn = "int" /\ Raw # NULL) =>
    IF IsIntNumeral(Raw) /\ InInt32(Raw)
    THEN acc.val = IntOf(Raw) /\ acc.warn = NoWarning
    ELSE acc.val = acc.dflt /\ acc.warn # NoWarning

\* param_int("k", 5) on the stored string "2147483648"
C14_Witness ==
  /\ Called /\ acc.fn = "int" /\ acc.dflt = 5
  /\ Raw = <<"2","1","4","7","4","8","3","6","4","8">>
  /\ acc.val = 5 /\ acc.warn # NoWarning

\* C15: param_bool returns TRUE when the stored string is, letter case apart,
\* one of 1, true, yes, on; FALSE when it is one of 0, false, no, off; and the
\* default, with a warning, for every other string, among them those that
\* begin with one of these words.
C15_BoolWords ==
  (Called /\ acc.fn = "bool" /\ Raw # NULL) =>
    IF Lowered(Raw) \in TrueWords THEN acc.val = TRUE /\ acc.warn = NoWarning
    ELSE IF Lowered(Raw) \in FalseWords THEN acc.val = FALSE /\ acc.warn = NoWarning
    ELSE acc.val = acc.dflt /\ acc.warn # NoWarning

\* param_bool("k", FALSE) on "tRuE", which is TRUE
C15_Witness ==
  /\ Called /\ acc.fn = "bool" /\ acc.dflt = FALSE
  /\ Raw = <<"t","R","u","E">> /\ acc.val = TRUE /\ acc.warn = NoWarning

\* the text is a floating-point literal in decimal or exponential notation,
\* blanks around it apart: [+-] digits [. digits] [e [+-] digits], with a
\* digit in the mantissa
IsMantissa(m) ==
  /\ \A i \in 1..Len(m) : m[i] \in Digits \cup {"."}
  /\ Cardinality({i \in 1..Len(m) : m[i] = "."}) <= 1
  /\ \E i \in 1..Len(m) : m[i] \in Digits
IsExponent(e) == e # <<>> /\ e[1] \in {"e", "E"} /\ AllDigits(Unsigned(Tail(e)))
IsDecimalLiteral(s) ==
  LET u == Unsigned(RTrim(LTrim(s))) IN
  \E i \in 1..Len(u) :
    /\ IsMantissa(SubSeq(u, 1, i))
    /\ i = Len(u) \/ IsExponent(SubSeq(u, i + 1, Len(u)))

\* C16: param_double returns the default, with a warning, whenever the stored
\* string is not as a whole a floating-point literal in decimal or exponential
\* notation, and whenever the value is not finite (inf, nan, an exponent that
\* overflows); it returns the parsed value only for a literal that is consumed
\* whole and has a finite value.
C16_DoubleStrict ==
  (Called /\ acc.fn = "double" /\ Raw # NULL) =>
    /\ (~IsDecimalLiteral(Raw) \/ strtod(Raw).range = "over") =>
         acc.val = acc.dflt /\ acc.warn # NoWarning
    /\ acc.warn = NoWarning => IsDecimalLiteral(Raw) /\ acc.val.cls = "finite"

====
